---- MODULE Spec2Model ----
(***************************************************************************)
(* Citation Extraction Engine                                              *)
(* (src/app/services/citation_extraction_service.py).                      *)
(*                                                                         *)
(* Texts are sequences of one-character strings.  Offsets into a text are  *)
(* 0-based as in the Python source; the character at offset i of txt is    *)
(* txt[i + 1].  Scores are scaled integers: prominence in 1/100,           *)
(* confidence in 1/1000, sentiment as a fraction num/den.                  *)
(***************************************************************************)
EXTENDS Integers, Sequences, FiniteSets, TLC

\* ------------------------------------------------------------------------
\* Characters and strings (Python str methods used by the service)
\* ------------------------------------------------------------------------

ToLower ==
  [A |-> "a", B |-> "b", C |-> "c", D |-> "d", E |-> "e", F |-> "f", G |-> "g",
   H |-> "h", I |-> "i", J |-> "j", K |-> "k", L |-> "l", M |-> "m", N |-> "n",
   O |-> "o", P |-> "p", Q |-> "q", R |-> "r", S |-> "s", T |-> "t", U |-> "u",
   V |-> "v", W |-> "w", X |-> "x", Y |-> "y", Z |-> "z"]

UpperLetters == DOMAIN ToLower

LowerLetters == {ToLower[c] : c \in UpperLetters}

Digits == {"0", "1", "2", "3", "4", "5", "6", "7", "8", "9"}

\* str.lower() on one character
Lower(c) == IF c \in UpperLetters THEN ToLower[c] ELSE c

\* str.lower()
LowerStr(s) == [i \in 1..Len(s) |-> Lower(s[i])]

\* str.isalnum() on one character
IsAlnum(c) == c \in UpperLetters \cup LowerLetters \cup Digits

\* the regex class \w
IsWordChar(c) == IsAlnum(c) \/ c = "_"

\* the regex class \s, str.strip(), str.split()
IsSpace(c) == c \in {" ", "\n", "\t"}

\* the regex class [.!?]
IsTerminator(c) == c \in {".", "!", "?"}

\* text[a:b] for 0 <= a, b <= len(text)
Slice(txt, a, b) == IF b <= a THEN <<>> ELSE SubSeq(txt, a + 1, b)

Max(a, b) == IF a >= b THEN a ELSE b

Min(a, b) == IF a <= b THEN a ELSE b

\* lit occurs in txt at offset i (exact characters)
StartsAt(txt, lit, i) ==
  /\ i + Len(lit) <= Len(txt)
  /\ \A j \in 1..Len(lit) : txt[i + j] = lit[j]

\* StartsAtCI with the re.IGNORECASE flag left out
StartsAtCaseSensitive(txt, lit, i) ==
  /\ i + Len(lit) <= Len(txt)
  /\ \A j \in 1..Len(lit) : txt[i + j] = lit[j]

\* lit occurs in txt at offset i, ignoring letter case (re.IGNORECASE)
StartsAtCI(txt, lit, i) ==
  /\ i + Len(lit) <= Len(txt)
  /\ \A j \in 1..Len(lit) : Lower(txt[i + j]) = Lower(lit[j])

\* `lit in txt`
Contains(txt, lit) == \E i \in 0..Len(txt) : StartsAt(txt, lit, i)

\* str.find(ch, lo): least offset >= lo holding ch, or -1
Find(txt, ch, lo) ==
  LET hits == {i \in lo..(Len(txt) - 1) : txt[i + 1] = ch}
  IN  IF hits = {} THEN -1 ELSE CHOOSE i \in hits : \A j \in hits : i <= j

\* str.rfind(ch, lo, hi): greatest offset in [lo, hi) holding ch, or -1
RFind(txt, ch, lo, hi) ==
  LET hits == {i \in lo..(Min(hi, Len(txt)) - 1) : txt[i + 1] = ch}
  IN  IF hits = {} THEN -1 ELSE CHOOSE i \in hits : \A j \in hits : i >= j

RECURSIVE CountFrom(_, _, _)
\* str.count(word): non-overlapping occurrences of word in txt from offset i
CountFrom(txt, word, i) ==
  LET hits == {j \in i..(Len(txt) - Len(word)) : StartsAt(txt, word, j)}
  IN  IF hits = {} THEN 0
      ELSE 1 + CountFrom(txt, word,
                         (CHOOSE j \in hits : \A h \in hits : j <= h) + Len(word))

Count(txt, word) == CountFrom(txt, word, 0)

\* len(text.split()): number of maximal runs of non-whitespace characters
WordCount(txt) ==
  Cardinality({i \in 1..Len(txt) :
                 /\ ~IsSpace(txt[i])
                 /\ (i = 1 \/ IsSpace(txt[i - 1]))})

\* str.strip()
Strip(txt) ==
  LET ns == {i \in 1..Len(txt) : ~IsSpace(txt[i])}
  IN  IF ns = {} THEN <<>>
      ELSE SubSeq(txt, CHOOSE i \in ns : \A j \in ns : i <= j,
                       CHOOSE i \in ns : \A j \in ns : i >= j)

\* str.isupper(): at least one cased character and no lower-case one
IsUpper(txt) ==
  /\ \E i \in 1..Len(txt) : txt[i] \in UpperLetters
  /\ \A i \in 1..Len(txt) : txt[i] \notin LowerLetters

\* ------------------------------------------------------------------------
\* Regular expressions (Python re, backtracking priority order)
\* ------------------------------------------------------------------------

Lit(s)  == [k |-> "lit",   s |-> s,    rs |-> <<>>]
Alt(rs) == [k |-> "alt",   s |-> <<>>, rs |-> rs]
Cat(rs) == [k |-> "cat",   s |-> <<>>, rs |-> rs]
Opt(r)  == Alt(<<r, Lit(<<>>)>>)
Brand   == [k |-> "brand", s |-> <<>>, rs |-> <<>>]
Spaces  == [k |-> "sp",    s |-> <<>>, rs |-> <<>>]
Word    == [k |-> "word",  s |-> <<>>, rs |-> <<>>]
AnyStar == [k |-> "any",   s |-> <<>>, rs |-> <<>>]
WordB   == [k |-> "wb",    s |-> <<>>, rs |-> <<>>]

\* \b at offset i: exactly one of the two neighbours is a word character
IsWordBoundary(txt, i) ==
  LET before == i > 0 /\ IsWordChar(txt[i])
      after  == i < Len(txt) /\ IsWordChar(txt[i + 1])
  IN  before # after

RECURSIVE RunLen(_, _, _)
\* length of the maximal run of characters of class cls starting at offset i
RunLen(txt, i, cls) ==
  IF i < Len(txt) /\ ( \/ cls = "sp"   /\ IsSpace(txt[i + 1])
                       \/ cls = "word" /\ IsWordChar(txt[i + 1])
                       \/ cls = "any"  /\ txt[i + 1] # "\n" )
  THEN 1 + RunLen(txt, i + 1, cls)
  ELSE 0

RECURSIVE Ends(_, _, _, _), AltEnds(_, _, _, _, _), CatEnds(_, _, _, _, _),
          EachStart(_, _, _, _, _)
\* The offsets at which a match of r that starts at offset i can end, in the
\* order in which the backtracking matcher tries them (greedy quantifiers
\* longest first, alternatives left to right).
Ends(r, txt, term, i) ==
  CASE r.k = "lit"   -> IF StartsAtCI(txt, r.s, i) THEN <<i + Len(r.s)>> ELSE <<>>
    [] r.k = "brand" -> IF StartsAtCI(txt, term, i) THEN <<i + Len(term)>> ELSE <<>>
    [] r.k = "wb"    -> IF IsWordBoundary(txt, i) THEN <<i>> ELSE <<>>
    [] r.k \in {"sp", "word"} ->
         LET n == RunLen(txt, i, r.k) IN [j \in 1..n |-> i + n + 1 - j]
    [] r.k = "any"   ->
         LET n == RunLen(txt, i, r.k) IN [j \in 1..(n + 1) |-> i + n + 1 - j]
    [] r.k = "alt"   -> AltEnds(r.rs, 1, txt, term, i)
    [] r.k = "cat"   -> CatEnds(r.rs, 1, txt, term, <<i>>)

AltEnds(rs, n, txt, term, i) ==
  IF n > Len(rs) THEN <<>>
  ELSE Ends(rs[n], txt, term, i) \o AltEnds(rs, n + 1, txt, term, i)

EachStart(r, txt, term, starts, n) ==
  IF n > Len(starts) THEN <<>>
  ELSE Ends(r, txt, term, starts[n]) \o EachStart(r, txt, term, starts, n + 1)

CatEnds(rs, n, txt, term, starts) ==
  IF n > Len(rs) \/ starts = <<>> THEN starts
  ELSE CatEnds(rs, n + 1, txt, term, EachStart(rs[n], txt, term, starts, 1))

RECURSIVE FindIterFrom(_, _, _, _), FirstMatch(_, _, _, _), MatchAt(_, _, _, _, _)
\* re.finditer(pattern, txt, re.IGNORECASE) from offset pos: leftmost,
\* non-overlapping matches as [start, end) spans.  The scan goes to the
\* first offset from pos on at which the pattern matches.
FindIterFrom(r, txt, term, pos) ==
  FirstMatch(r, txt, term, {p \in pos..Len(txt) : Ends(r, txt, term, p) # <<>>})

\* the match at the least of the offsets starts, ending where the matcher
\* first succeeds, and the matches behind it
FirstMatch(r, txt, term, starts) ==
  IF starts = {} THEN <<>>
  ELSE MatchAt(r, txt, term, CHOOSE p \in starts : \A q \in starts : p <= q,
               Ends(r, txt, term, CHOOSE p \in starts : \A q \in starts : p <= q))

\* a match at offset pos is reported and the scan resumes at its end (one
\* further for an empty match)
MatchAt(r, txt, term, pos, ends) ==
  <<[start |-> pos, end |-> ends[1]]>>
  \o FindIterFrom(r, txt, term, IF ends[1] > pos THEN ends[1] ELSE pos + 1)

FindIter(r, txt, term) == FindIterFrom(r, txt, term, 0)

\* ------------------------------------------------------------------------
\* Lexicon tables
\* ------------------------------------------------------------------------

extraction_patterns ==
  <<
     [mention_type |-> "direct", patterns |-> <<
        \* r'\b{brand}\b'
        Cat(<<WordB, Brand, WordB>>),
        \* r'\b{brand}(?:\'s|\s+is|\s+are|\s+has|\s+does)'
        Cat(<<WordB, Brand, Alt(<<Lit(<<"'","s">>), Cat(<<Spaces, Lit(<<"i","s">>)>>), Cat(<<Spaces, Lit(<<"a","r","e">>)>>), Cat(<<Spaces, Lit(<<"h","a","s">>)>>), Cat(<<Spaces, Lit(<<"d","o","e","s">>)>>)>>)>>),
        \* r'(?:using|with|via|through)\s+{brand}\b'
        Cat(<<Alt(<<Lit(<<"u","s","i","n","g">>), Lit(<<"w","i","t","h">>), Lit(<<"v","i","a">>), Lit(<<"t","h","r","o","u","g","h">>)>>), Spaces, Brand, WordB>>) >>],
     [mention_type |-> "comparison", patterns |-> <<
        \* r'{brand}\s+(?:vs\.?|versus|compared to|against)'
        Cat(<<Brand, Spaces, Alt(<<Cat(<<Lit(<<"v","s">>), Opt(Lit(<<".">>))>>), Lit(<<"v","e","r","s","u","s">>), Lit(<<"c","o","m","p","a","r","e","d"," ","t","o">>), Lit(<<"a","g","a","i","n","s","t">>)>>)>>),
        \* r'(?:vs\.?|versus|compared to|against)\s+{brand}'
        Cat(<<Alt(<<Cat(<<Lit(<<"v","s">>), Opt(Lit(<<".">>))>>), Lit(<<"v","e","r","s","u","s">>), Lit(<<"c","o","m","p","a","r","e","d"," ","t","o">>), Lit(<<"a","g","a","i","n","s","t">>)>>), Spaces, Brand>>),
        \* r'{brand}\s+(?:or|and)\s+\w+'
        Cat(<<Brand, Spaces, Alt(<<Lit(<<"o","r">>), Lit(<<"a","n","d">>)>>), Spaces, Word>>),
        \* r'(?:between|among)\s+.*{brand}'
        Cat(<<Alt(<<Lit(<<"b","e","t","w","e","e","n">>), Lit(<<"a","m","o","n","g">>)>>), Spaces, AnyStar, Brand>>) >>],
     [mention_type |-> "recommendation", patterns |-> <<
        \* r'(?:recommend|suggest|advise|consider)\s+.*{brand}'
        Cat(<<Alt(<<Lit(<<"r","e","c","o","m","m","e","n","d">>), Lit(<<"s","u","g","g","e","s","t">>), Lit(<<"a","d","v","i","s","e">>), Lit(<<"c","o","n","s","i","d","e","r">>)>>), Spaces, AnyStar, Brand>>),
        \* r'{brand}\s+(?:is recommended|is suggested)'
        Cat(<<Brand, Spaces, Alt(<<Lit(<<"i","s"," ","r","e","c","o","m","m","e","n","d","e","d">>), Lit(<<"i","s"," ","s","u","g","g","e","s","t","e","d">>)>>)>>),
        \* r'(?:try|use|check out|go with)\s+{brand}'
        Cat(<<Alt(<<Lit(<<"t","r","y">>), Lit(<<"u","s","e">>), Lit(<<"c","h","e","c","k"," ","o","u","t">>), Lit(<<"g","o"," ","w","i","t","h">>)>>), Spaces, Brand>>),
        \* r'{brand}\s+(?:would be|might be|could be)\s+(?:good|great|excellent)'
        Cat(<<Brand, Spaces, Alt(<<Lit(<<"w","o","u","l","d"," ","b","e">>), Lit(<<"m","i","g","h","t"," ","b","e">>), Lit(<<"c","o","u","l","d"," ","b","e">>)>>), Spaces, Alt(<<Lit(<<"g","o","o","d">>), Lit(<<"g","r","e","a","t">>), Lit(<<"e","x","c","e","l","l","e","n","t">>)>>)>>) >>],
     [mention_type |-> "alternative", patterns |-> <<
        \* r'(?:alternative|option|choice|substitute)\s+.*{brand}'
        Cat(<<Alt(<<Lit(<<"a","l","t","e","r","n","a","t","i","v","e">>), Lit(<<"o","p","t","i","o","n">>), Lit(<<"c","h","o","i","c","e">>), Lit(<<"s","u","b","s","t","i","t","u","t","e">>)>>), Spaces, AnyStar, Brand>>),
        \* r'{brand}\s+(?:as an alternative|as another option)'
        Cat(<<Brand, Spaces, Alt(<<Lit(<<"a","s"," ","a","n"," ","a","l","t","e","r","n","a","t","i","v","e">>), Lit(<<"a","s"," ","a","n","o","t","h","e","r"," ","o","p","t","i","o","n">>)>>)>>),
        \* r'(?:instead of|rather than).*{brand}'
        Cat(<<Alt(<<Lit(<<"i","n","s","t","e","a","d"," ","o","f">>), Lit(<<"r","a","t","h","e","r"," ","t","h","a","n">>)>>), AnyStar, Brand>>),
        \* r'{brand}\s+(?:alternatively|otherwise)'
        Cat(<<Brand, Spaces, Alt(<<Lit(<<"a","l","t","e","r","n","a","t","i","v","e","l","y">>), Lit(<<"o","t","h","e","r","w","i","s","e">>)>>)>>) >>],
     [mention_type |-> "feature", patterns |-> <<
        \* r'{brand}(?:\'s)?\s+(?:feature|capability|function|tool)'
        Cat(<<Brand, Opt(Lit(<<"'","s">>)), Spaces, Alt(<<Lit(<<"f","e","a","t","u","r","e">>), Lit(<<"c","a","p","a","b","i","l","i","t","y">>), Lit(<<"f","u","n","c","t","i","o","n">>), Lit(<<"t","o","o","l">>)>>)>>),
        \* r'(?:feature|capability|function|tool)\s+(?:of|in)\s+{brand}'
        Cat(<<Alt(<<Lit(<<"f","e","a","t","u","r","e">>), Lit(<<"c","a","p","a","b","i","l","i","t","y">>), Lit(<<"f","u","n","c","t","i","o","n">>), Lit(<<"t","o","o","l">>)>>), Spaces, Alt(<<Lit(<<"o","f">>), Lit(<<"i","n">>)>>), Spaces, Brand>>),
        \* r'{brand}\s+(?:offers|provides|includes|has)'
        Cat(<<Brand, Spaces, Alt(<<Lit(<<"o","f","f","e","r","s">>), Lit(<<"p","r","o","v","i","d","e","s">>), Lit(<<"i","n","c","l","u","d","e","s">>), Lit(<<"h","a","s">>)>>)>>),
        \* r'(?:with|using)\s+{brand}(?:\'s)?\s+\w+'
        Cat(<<Alt(<<Lit(<<"w","i","t","h">>), Lit(<<"u","s","i","n","g">>)>>), Spaces, Brand, Opt(Lit(<<"'","s">>)), Spaces, Word>>) >>],
     [mention_type |-> "review", patterns |-> <<
        \* r'{brand}\s+(?:is|are)\s+(?:good|great|excellent|bad|poor|terrible)'
        Cat(<<Brand, Spaces, Alt(<<Lit(<<"i","s">>), Lit(<<"a","r","e">>)>>), Spaces, Alt(<<Lit(<<"g","o","o","d">>), Lit(<<"g","r","e","a","t">>), Lit(<<"e","x","c","e","l","l","e","n","t">>), Lit(<<"b","a","d">>), Lit(<<"p","o","o","r">>), Lit(<<"t","e","r","r","i","b","l","e">>)>>)>>),
        \* r'(?:love|like|hate|dislike)\s+{brand}'
        Cat(<<Alt(<<Lit(<<"l","o","v","e">>), Lit(<<"l","i","k","e">>), Lit(<<"h","a","t","e">>), Lit(<<"d","i","s","l","i","k","e">>)>>), Spaces, Brand>>),
        \* r'{brand}\s+(?:works|performs|functions)'
        Cat(<<Brand, Spaces, Alt(<<Lit(<<"w","o","r","k","s">>), Lit(<<"p","e","r","f","o","r","m","s">>), Lit(<<"f","u","n","c","t","i","o","n","s">>)>>)>>),
        \* r'(?:experience with|opinion on|thoughts about)\s+{brand}'
        Cat(<<Alt(<<Lit(<<"e","x","p","e","r","i","e","n","c","e"," ","w","i","t","h">>), Lit(<<"o","p","i","n","i","o","n"," ","o","n">>), Lit(<<"t","h","o","u","g","h","t","s"," ","a","b","o","u","t">>)>>), Spaces, Brand>>) >>]
  >>
PositiveKeywords ==
  <<<<"e","x","c","e","l","l","e","n","t">>, <<"o","u","t","s","t","a","n","d","i","n","g">>, <<"g","r","e","a","t">>, <<"g","o","o","d">>,
    <<"a","m","a","z","i","n","g">>, <<"f","a","n","t","a","s","t","i","c">>, <<"w","o","n","d","e","r","f","u","l">>, <<"i","m","p","r","e","s","s","i","v","e">>,
    <<"r","e","l","i","a","b","l","e">>, <<"e","f","f","i","c","i","e","n","t">>, <<"h","e","l","p","f","u","l">>, <<"e","a","s","y">>,
    <<"s","i","m","p","l","e">>, <<"i","n","t","u","i","t","i","v","e">>, <<"p","o","w","e","r","f","u","l">>, <<"r","o","b","u","s","t">>,
    <<"s","o","l","i","d">>, <<"r","e","c","o","m","m","e","n","d">>, <<"l","o","v","e">>, <<"l","i","k","e">>,
    <<"p","r","e","f","e","r">>, <<"b","e","s","t">>, <<"t","o","p">>, <<"l","e","a","d","i","n","g">>,
    <<"s","u","p","e","r","i","o","r">>, <<"a","d","v","a","n","c","e","d">>, <<"i","n","n","o","v","a","t","i","v","e">>, <<"s","e","a","m","l","e","s","s">>,
    <<"s","m","o","o","t","h">>>>
NegativeKeywords ==
  <<<<"t","e","r","r","i","b","l","e">>, <<"a","w","f","u","l">>, <<"b","a","d">>, <<"p","o","o","r">>,
    <<"h","o","r","r","i","b","l","e">>, <<"d","i","s","a","p","p","o","i","n","t","i","n","g">>, <<"f","r","u","s","t","r","a","t","i","n","g">>, <<"d","i","f","f","i","c","u","l","t">>,
    <<"h","a","r","d">>, <<"c","o","m","p","l","e","x">>, <<"c","o","n","f","u","s","i","n","g">>, <<"s","l","o","w">>,
    <<"u","n","r","e","l","i","a","b","l","e">>, <<"b","u","g","g","y">>, <<"b","r","o","k","e","n">>, <<"e","x","p","e","n","s","i","v","e">>,
    <<"c","o","s","t","l","y">>, <<"h","a","t","e">>, <<"d","i","s","l","i","k","e">>, <<"a","v","o","i","d">>,
    <<"w","o","r","s","t">>, <<"l","a","c","k","i","n","g">>, <<"l","i","m","i","t","e","d">>, <<"p","r","o","b","l","e","m","a","t","i","c">>,
    <<"i","s","s","u","e","s">>, <<"p","r","o","b","l","e","m","s">>, <<"c","o","m","p","l","a","i","n","t","s">>, <<"c","o","n","c","e","r","n","s">>>>
business_terms ==
  <<<<"s","o","f","t","w","a","r","e">>, <<"t","o","o","l">>, <<"p","l","a","t","f","o","r","m">>, <<"s","e","r","v","i","c","e">>,
    <<"c","o","m","p","a","n","y">>, <<"s","o","l","u","t","i","o","n">>, <<"p","r","o","d","u","c","t">>>>

\* a confidence without the per-type weight: every type weighs 1.0
type_confidence_unweighted(mention_type) == 10

\* type_confidence (in 1/10); the .get default is 6
type_confidence(mention_type) ==
  CASE mention_type = "direct"         -> 9
    [] mention_type = "recommendation" -> 8
    [] mention_type = "comparison"     -> 8
    [] mention_type = "review"         -> 7
    [] mention_type = "feature"        -> 7
    [] mention_type = "alternative"    -> 6
    [] mention_type = "question"       -> 5
    [] OTHER                           -> 6

\* _build_prominence_indicators (in 1/100)
prominence_indicators ==
  [first_sentence |-> 150, first_paragraph |-> 130, bullet_point |-> 120,
   numbered_list |-> 120, quoted |-> 140, emphasized |-> 130,
   last_sentence |-> 110, middle_content |-> 100, parenthetical |-> 80,
   footnote |-> 70]

\* width of the look-behind / look-ahead slices of the prominence scorer
ProminenceSpan == 50

\* ------------------------------------------------------------------------
\* Sentence splitting
\* ------------------------------------------------------------------------

RECURSIVE SplitOn(_, _, _, _)
\* The pieces of txt from offset i on, cut at every character for which
\* cut[i + 1] holds; cur is the piece being collected.  Pieces are stripped
\* and the empty ones dropped when dropEmpty holds.
SplitOn(txt, cut, i, cur) ==
  IF i >= Len(txt) THEN <<cur>>
  ELSE IF cut[i + 1] THEN <<cur>> \o SplitOn(txt, cut, i + 1, <<>>)
  ELSE SplitOn(txt, cut, i + 1, Append(cur, txt[i + 1]))

StripAll(pieces) == [i \in 1..Len(pieces) |-> Strip(pieces[i])]

\* re.split(r'[.!?]+', text), stripped, empty pieces dropped
BasicSentences(txt) ==
  LET cut == [i \in 1..Len(txt) |-> IsTerminator(txt[i])]
  IN  SelectSeq(StripAll(SplitOn(txt, cut, 0, <<>>)), LAMBDA s : s # <<>>)

\* [sent.text.strip() for sent in self.nlp(text).sents]: the loaded pipeline
\* ends a sentence after a run of terminators that is followed by white
\* space; an empty text has no sentence, and no piece is dropped.
NlpSentences(txt) ==
  LET cut == [i \in 1..Len(txt) |->
                /\ IsSpace(txt[i])
                /\ i > 1 /\ IsTerminator(txt[i - 1])
                /\ i < Len(txt)]
  IN  IF txt = <<>> THEN <<>> ELSE StripAll(SplitOn(txt, cut, 0, <<>>))

\* _split_into_sentences that never consults the pipeline
split_into_sentences_basic(txt, nlp) == BasicSentences(txt)

split_into_sentences(txt, nlp) ==
  IF nlp # "none" THEN NlpSentences(txt) ELSE BasicSentences(txt)

calculate_mention_position(response_text, start_pos, nlp) ==
  Len(split_into_sentences(Slice(response_text, 0, start_pos), nlp)) + 1

\* ------------------------------------------------------------------------
\* Context extraction
\* ------------------------------------------------------------------------

\* a // 2 (floor division)
FloorHalf(a) == IF a >= 0 THEN a \div 2 ELSE -((1 - a) \div 2)

\* a slice index as Python normalises it for a string of length n
NormIdx(i, n) == IF i < 0 THEN Max(0, n + i) ELSE Min(i, n)

\* text[a:b] with Python's treatment of negative and oversized indices
PySlice(txt, a, b) == Slice(txt, NormIdx(a, Len(txt)), NormIdx(b, Len(txt)))

extract_context(response_text, start_pos, end_pos, context_window) ==
  LET n      == Len(response_text)
      start0 == Max(0, start_pos - FloorHalf(context_window))
      end0   == Min(n, end_pos + FloorHalf(context_window))
      sp1    == Find(response_text, " ", start0)
      cstart == IF start0 > 0 /\ sp1 # -1 /\ sp1 < start_pos
                THEN sp1 + 1 ELSE start0
      sp2    == RFind(response_text, " ", end_pos, NormIdx(end0, n))
      cend   == IF end0 < n /\ sp2 # -1 THEN sp2 ELSE end0
  IN  [context       |-> Strip(PySlice(response_text, cstart, cend)),
       context_start |-> cstart,
       context_end   |-> cend]

\* ------------------------------------------------------------------------
\* Scoring
\* ------------------------------------------------------------------------

\* Clamp with the clamping left out
ClampOff(lo, hi, x) == x

\* max(lo, min(hi, x)): the clamp that ends each of the three scorers
Clamp(lo, hi, x) == Max(lo, Min(hi, x))

\* sum of text.count(word) over the first n words of a keyword list: the
\* number of (word, occurrence) pairs
SumCounts(txt, keywords, n) ==
  Cardinality(UNION {{<<k, c>> : c \in 1..Count(txt, keywords[k])} : k \in 1..n})

\* ------------------------------------------------------------------------
\* The float arithmetic of the sentiment scorer
\* ------------------------------------------------------------------------

\* The width of the significand of a Python float (IEEE 754 binary64)
MantissaBits == 53

\* A float that is not negative is [exp, bits]: bits are the MantissaBits
\* binary digits of the significand, the first of them 1, and the value is
\* 1.b2 b3 ... times 2^exp.  The float 0.0 has no digits.
FloatZero == [exp |-> 0, bits |-> <<>>]

RECURSIVE DivRem(_, _, _)
\* what is left of r / k (0 <= r < k) after its next n binary digits, eight
\* digits at a time
DivRem(r, k, n) ==
  IF n >= 8 THEN DivRem((r * 256) % k, k, n - 8) ELSE (r * 2^n) % k

\* the next n binary digits of r / k for 0 <= r < k
DivBits(r, k, n) == [i \in 1..n |-> (2 * DivRem(r, k, i - 1)) \div k]

\* a digit string plus one in its last place (all 0 when the carry leaves it)
Incremented(bits) ==
  LET zeros == {i \in 1..Len(bits) : bits[i] = 0}
      last  == IF zeros = {} THEN 0
               ELSE CHOOSE i \in zeros : \A j \in zeros : j <= i
  IN  [i \in 1..Len(bits) |->
         IF i < last THEN bits[i] ELSE IF i = last THEN 1 ELSE 0]

\* round to nearest, ties to even: bits are the MantissaBits leading digits,
\* guard is the digit after them and sticky tells whether any later digit or
\* remainder is left
Rounded(exp, bits, guard, sticky) ==
  IF guard = 1 /\ (sticky \/ bits[MantissaBits] = 1)
  THEN IF \A i \in 1..MantissaBits : bits[i] = 1
       THEN [exp |-> exp + 1, bits |-> <<1>> \o SubSeq(Incremented(bits), 2, MantissaBits)]
       ELSE [exp |-> exp, bits |-> Incremented(bits)]
  ELSE [exp |-> exp, bits |-> bits]

RECURSIVE Scaled(_, _, _)
\* p / k for p, k > 0 as [num, den, exp] with den <= num < 2 * den and
\* p / k = (num / den) * 2^exp
Scaled(p, k, e) ==
  IF p < k THEN Scaled(2 * p, k, e - 1)
  ELSE IF p >= 2 * k THEN Scaled(p, 2 * k, e + 1)
  ELSE [num |-> p, den |-> k, exp |-> e]

\* the float p / k for integers p >= 0 and k > 0
FloatDiv(p, k) ==
  IF p = 0 THEN FloatZero
  ELSE LET s      == Scaled(p, k, 0)
           digits == DivBits(s.num - s.den, s.den, MantissaBits)
       IN  Rounded(s.exp, <<1>> \o SubSeq(digits, 1, MantissaBits - 1),
                   digits[MantissaBits],
                   DivRem(s.num - s.den, s.den, MantissaBits) # 0)

\* the digits of a - b for digit strings of equal length, a >= b: a place
\* lends to the next one when the digits after it are those of a smaller
\* number in a than in b
SubBits(a, b) ==
  [i \in 1..Len(a) |->
     (a[i] - b[i] + 2
        - (IF \E j \in (i + 1)..Len(a) :
                 a[j] < b[j] /\ \A m \in (i + 1)..(j - 1) : a[m] = b[m]
           THEN 1 ELSE 0)) % 2]

\* the float a - b for floats a >= b >= 0: the digits of the difference,
\* aligned at the exponent of a, from their first 1 on and rounded
FloatSub(a, b) ==
  IF b = FloatZero THEN a
  ELSE LET shift == [i \in 1..(a.exp - b.exp) |-> 0]
           bits  == SubBits(a.bits \o shift, shift \o b.bits)
           ones  == {i \in 1..Len(bits) : bits[i] = 1}
           z     == (CHOOSE i \in ones : \A j \in ones : i <= j) - 1
       IN  IF ones = {} THEN FloatZero
           ELSE IF Len(bits) - z <= MantissaBits
           THEN [exp  |-> a.exp - z,
                 bits |-> SubSeq(bits, z + 1, Len(bits))
                          \o [i \in 1..(MantissaBits - (Len(bits) - z)) |-> 0]]
           ELSE Rounded(a.exp - z, SubSeq(bits, z + 1, z + MantissaBits),
                        bits[z + MantissaBits + 1],
                        \E i \in (z + MantissaBits + 2)..Len(bits) : bits[i] = 1)

\* a > b for floats that are not negative
FloatGreater(a, b) ==
  IF a = FloatZero THEN FALSE
  ELSE IF b = FloatZero THEN TRUE
  ELSE \/ a.exp > b.exp
       \/ /\ a.exp = b.exp
          /\ \E i \in 1..MantissaBits :
                /\ a.bits[i] > b.bits[i]
                /\ \A j \in 1..(i - 1) : a.bits[j] = b.bits[j]

\* positive_ratio - negative_ratio > 0.1 for hits hi >= lo, as the floats
\* decide it.  With fewer than ten words the divisor is 1, and with a
\* multiple of ten it is the integer total_words / 10: the two quotients,
\* their difference and 0.1 are then computed as floats.  Any other divisor
\* keeps the exact score 10 * (hi - lo) / total_words at least
\* 1 / (10 * total_words) away from 1/10, far more than the three roundings
\* can move it, so the exact comparison decides as the floats do.
RatioGapAboveTenth(hi, lo, total_words) ==
  IF total_words < 10 \/ total_words % 10 = 0
  THEN FloatGreater(FloatSub(FloatDiv(hi, Max(total_words \div 10, 1)),
                             FloatDiv(lo, Max(total_words \div 10, 1))),
                    FloatDiv(1, 10))
  ELSE 100 * (hi - lo) > total_words

\* The sentiment label for the two hit counts and the word count (the clamp
\* to [-1, 1] moves no score across 0.1 or -0.1)
SentimentLabel(positive_count, negative_count, total_words) ==
  IF positive_count > negative_count
     /\ RatioGapAboveTenth(positive_count, negative_count, total_words)
  THEN "positive"
  ELSE IF negative_count > positive_count
          /\ RatioGapAboveTenth(negative_count, positive_count, total_words)
  THEN "negative"
  ELSE IF positive_count > 0 /\ negative_count > 0 THEN "mixed"
  ELSE "neutral"

\* The score and label for the two hit counts and the word count:
\* sentiment_score is held as the fraction num/den that the float rounds,
\* with den = max(total_words, 10) and
\* num = 10 * (positive_count - negative_count), clamped to [-den, den]
SentimentOf(positive_count, negative_count, total_words) ==
  [num  |-> Clamp(-Max(total_words, 10), Max(total_words, 10),
                  10 * (positive_count - negative_count)),
   den  |-> Max(total_words, 10),
   type |-> SentimentLabel(positive_count, negative_count, total_words)]

analyze_sentiment(text) ==
  IF text = <<>> \/ WordCount(text) = 0
  THEN [num |-> 0, den |-> 1, type |-> "neutral"]
  ELSE SentimentOf(SumCounts(LowerStr(text), PositiveKeywords, Len(PositiveKeywords)),
                   SumCounts(LowerStr(text), NegativeKeywords, Len(NegativeKeywords)),
                   WordCount(text))

\* offsets at which a line starts (re.MULTILINE '^')
LineStarts(txt) == {0} \cup {i \in 1..Len(txt) : txt[i] = "\n"}

\* offsets reachable from offset j by skipping white space (\s*)
AfterSpaces(txt, j) ==
  {k \in j..Len(txt) : \A m \in (j + 1)..k : IsSpace(txt[m])}

\* the character U+2022 (bullet)
BulletChar == "U+2022"

\* re.search(r'^\s*[-*<U+2022>]\s*', txt, re.MULTILINE)
HasBullet(txt) ==
  \E j \in LineStarts(txt) : \E k \in AfterSpaces(txt, j) :
     k < Len(txt) /\ txt[k + 1] \in {"-", "*", BulletChar}

\* re.search(r'^\s*\d+\.\s*', txt, re.MULTILINE)
HasNumbered(txt) ==
  \E j \in LineStarts(txt) : \E k \in AfterSpaces(txt, j) :
     \E d \in (k + 1)..(Len(txt) - 1) :
        /\ \A m \in (k + 1)..d : txt[m] \in Digits
        /\ txt[d + 1] = "."

calculate_prominence_score(response_text, start_pos, end_pos, position, mention_text, nlp) ==
  LET total_sentences == Len(split_into_sentences(response_text, nlp))
      context_before  == Slice(response_text, Max(0, start_pos - ProminenceSpan), start_pos)
      context_after   == Slice(response_text, end_pos,
                               Min(Len(response_text), end_pos + ProminenceSpan))
      byPosition ==
        IF position = 1 THEN prominence_indicators.first_sentence - 100
        ELSE IF position <= 3 THEN prominence_indicators.first_paragraph - 100
        ELSE IF position = total_sentences
             THEN prominence_indicators.last_sentence - 100
        ELSE 0
      byList ==
        IF HasBullet(context_before) THEN prominence_indicators.bullet_point - 100
        ELSE IF HasNumbered(context_before)
             THEN prominence_indicators.numbered_list - 100
        ELSE 0
      byQuote ==
        IF Contains(context_before, <<"\"">>) /\ Contains(context_after, <<"\"">>)
        THEN prominence_indicators.quoted - 100 ELSE 0
      byEmphasis ==
        IF IsUpper(mention_text)
           \/ Contains(context_before \o context_after, <<"*", "*">>)
        THEN prominence_indicators.emphasized - 100 ELSE 0
      byParen ==
        IF Contains(context_before, <<"(">>) /\ Contains(context_after, <<")">>)
        THEN prominence_indicators.parenthetical - 100 ELSE 0
  IN  Clamp(0, 100, 50 + byPosition + byList + byQuote + byEmphasis + byParen)

calculate_confidence_score(mention_text, search_term, brand_name, context, mention_type) ==
  LET match_bonus ==
        IF LowerStr(mention_text) = LowerStr(brand_name) THEN 30
        ELSE IF LowerStr(mention_text) = LowerStr(search_term) THEN 20
        ELSE 0
      context_lower  == LowerStr(context)
      business_count ==
        Cardinality({i \in 1..Len(business_terms) :
                       Contains(context_lower, business_terms[i])})
      context_bonus == IF context # <<>> THEN Min(20, business_count * 5) ELSE 0
  IN  Clamp(0, 1000, (50 + match_bonus + context_bonus) * type_confidence(mention_type))

is_full_word_match(text, start_pos, end_pos) ==
  /\ ~(start_pos > 0 /\ IsAlnum(text[start_pos]))
  /\ ~(end_pos < Len(text) /\ IsAlnum(text[end_pos + 1]))

\* ------------------------------------------------------------------------
\* Mention matching
\* ------------------------------------------------------------------------

\* BrandMention(...) as _create_mention_from_match fills it in, from the
\* values it has computed
BrandMention(brand_name, position, mention_text, ctx, mention_type, sentiment, prominence_score, confidence_score, now, metadata) ==
  [brand_name       |-> brand_name,
   mentioned        |-> TRUE,
   position         |-> position,
   mention_text     |-> mention_text,
   context          |-> ctx.context,
   context_start    |-> ctx.context_start,
   context_end      |-> ctx.context_end,
   mention_type     |-> mention_type,
   sentiment_score  |-> [num |-> sentiment.num, den |-> sentiment.den],
   sentiment_type   |-> sentiment.type,
   prominence_score |-> prominence_score,
   confidence_score |-> confidence_score,
   extracted_at     |-> now,
   metadata         |-> metadata]

\* the second half of _create_mention_from_match: the scores and the record,
\* given the matched text, its sentence position and its context
ScoredMention(start_pos, end_pos, mention_text, position, ctx, response_text, brand_name, search_term, mention_type, nlp, now) ==
  BrandMention(brand_name, position, mention_text, ctx, mention_type,
    analyze_sentiment(IF ctx.context # <<>> THEN ctx.context ELSE mention_text),
    calculate_prominence_score(response_text, start_pos, end_pos, position,
                               mention_text, nlp),
    calculate_confidence_score(mention_text, search_term, brand_name,
                               ctx.context, mention_type),
    now,
    [search_term          |-> search_term,
     match_start          |-> start_pos,
     match_end            |-> end_pos,
     pattern_type         |-> mention_type,
     case_sensitive_match |-> Contains(response_text, search_term),
     full_word_match      |-> is_full_word_match(response_text, start_pos, end_pos)])

create_mention_from_match(match, response_text, brand_name, search_term, mention_type, include_context, context_window, nlp, now) ==
  ScoredMention(match.start, match.end,
    Slice(response_text, match.start, match.end),
    calculate_mention_position(response_text, match.start, nlp),
    IF include_context
    THEN extract_context(response_text, match.start, match.end, context_window)
    ELSE [context |-> <<>>, context_start |-> match.start,
          context_end |-> match.end],
    response_text, brand_name, search_term, mention_type, nlp, now)

\* the values of the enumeration MentionType
MentionType ==
  {"direct", "comparison", "recommendation", "alternative", "feature",
   "review", "question"}

RECURSIVE FlattenPatterns(_, _, _)
\* the (mention type, pattern) pairs in the order the two nested loops of
\* _find_brand_mentions visit them
FlattenPatterns(table, t, p) ==
  IF t > Len(table) THEN <<>>
  ELSE IF p > Len(table[t].patterns) THEN FlattenPatterns(table, t + 1, 1)
  ELSE <<[mention_type |-> table[t].mention_type, pattern |-> table[t].patterns[p]]>>
       \o FlattenPatterns(table, t, p + 1)

TypedPatterns == FlattenPatterns(extraction_patterns, 1, 1)

\* one mention per match of one pattern
MentionsOf(matches, mention_type, response_text, search_term, brand_name, include_context, context_window, nlp, now) ==
  [i \in 1..Len(matches) |->
     create_mention_from_match(matches[i], response_text, brand_name, search_term,
                               mention_type, include_context, context_window,
                               nlp, now)]

RECURSIVE TypedMentions(_, _, _, _, _, _, _, _)
TypedMentions(n, response_text, search_term, brand_name, include_context, context_window, nlp, now) ==
  IF n > Len(TypedPatterns) THEN <<>>
  ELSE MentionsOf(FindIter(TypedPatterns[n].pattern, response_text, search_term),
                  TypedPatterns[n].mention_type,
                  response_text, search_term, brand_name, include_context,
                  context_window, nlp, now)
       \o TypedMentions(n + 1, response_text, search_term, brand_name,
                        include_context, context_window, nlp, now)

\* a fallback that runs the literal search whether or not a pattern matched
OrFallbackAlways(mentions, response_text, search_term, brand_name, include_context, context_window, nlp, now) ==
  mentions \o MentionsOf(FindIter(Brand, response_text, search_term), "direct",
                         response_text, search_term, brand_name,
                         include_context, context_window, nlp, now)

\* the fallback of _find_brand_mentions: the literal search runs only when
\* no pattern has matched
OrFallback(mentions, response_text, search_term, brand_name, include_context, context_window, nlp, now) ==
  IF mentions # <<>> THEN mentions
  ELSE MentionsOf(FindIter(Brand, response_text, search_term), "direct",
                  response_text, search_term, brand_name, include_context,
                  context_window, nlp, now)

find_brand_mentions(response_text, search_term, brand_name, include_context, context_window, nlp, now) ==
  OrFallback(TypedMentions(1, response_text, search_term, brand_name,
                           include_context, context_window, nlp, now),
             response_text, search_term, brand_name, include_context,
             context_window, nlp, now)

\* ------------------------------------------------------------------------
\* De-duplication and ordering
\* ------------------------------------------------------------------------

DedupKey(m) == <<m.position, m.context_start, m.context_end>>

RECURSIVE DedupFromKeepLast(_, _, _, _)
\* DedupFrom that replaces the kept mention on equal confidence as well
DedupFromKeepLast(mentions, i, unique_mentions, seen_positions) ==
  IF i > Len(mentions) THEN unique_mentions
  ELSE LET mention == mentions[i]
           key     == DedupKey(mention)
       IN  IF key \notin seen_positions
           THEN DedupFromKeepLast(mentions, i + 1,
                                  Append(unique_mentions, mention),
                                  seen_positions \cup {key})
           ELSE LET hits == {j \in 1..Len(unique_mentions) :
                               DedupKey(unique_mentions[j]) = key}
                    j    == CHOOSE j \in hits : \A h \in hits : j <= h
                IN  IF hits # {} /\ mention.confidence_score
                                      >= unique_mentions[j].confidence_score
                    THEN DedupFromKeepLast(mentions, i + 1,
                                   [unique_mentions EXCEPT ![j] = mention],
                                   seen_positions)
                    ELSE DedupFromKeepLast(mentions, i + 1, unique_mentions,
                                   seen_positions)

RECURSIVE DedupFrom(_, _, _, _)
DedupFrom(mentions, i, unique_mentions, seen_positions) ==
  IF i > Len(mentions) THEN unique_mentions
  ELSE LET mention == mentions[i]
           key     == DedupKey(mention)
       IN  IF key \notin seen_positions
           THEN DedupFrom(mentions, i + 1, Append(unique_mentions, mention),
                          seen_positions \cup {key})
           ELSE LET hits == {j \in 1..Len(unique_mentions) :
                               DedupKey(unique_mentions[j]) = key}
                    j    == CHOOSE j \in hits : \A h \in hits : j <= h
                IN  IF hits # {} /\ mention.confidence_score
                                      > unique_mentions[j].confidence_score
                    THEN DedupFrom(mentions, i + 1,
                                   [unique_mentions EXCEPT ![j] = mention],
                                   seen_positions)
                    ELSE DedupFrom(mentions, i + 1, unique_mentions,
                                   seen_positions)

RECURSIVE DedupFromByPosition(_, _, _, _)
\* DedupFrom whose inner loop looks the existing mention up by position only
DedupFromByPosition(mentions, i, unique_mentions, seen_positions) ==
  IF i > Len(mentions) THEN unique_mentions
  ELSE LET mention == mentions[i]
           key     == DedupKey(mention)
       IN  IF key \notin seen_positions
           THEN DedupFromByPosition(mentions, i + 1,
                                    Append(unique_mentions, mention),
                                    seen_positions \cup {key})
           ELSE LET hits == {j \in 1..Len(unique_mentions) :
                               unique_mentions[j].position = mention.position}
                    j    == CHOOSE j \in hits : \A h \in hits : j <= h
                IN  IF hits # {} /\ mention.confidence_score
                                      > unique_mentions[j].confidence_score
                    THEN DedupFromByPosition(mentions, i + 1,
                                   [unique_mentions EXCEPT ![j] = mention],
                                   seen_positions)
                    ELSE DedupFromByPosition(mentions, i + 1, unique_mentions,
                                   seen_positions)

\* _deduplicate_mentions with that inner loop
deduplicate_mentions_by_position(mentions) ==
  DedupFromByPosition(mentions, 1, <<>>, {})

deduplicate_mentions(mentions) == DedupFrom(mentions, 1, <<>>, {})

RECURSIVE InsertByPosition(_, _)
\* insert m behind every element whose position is not greater
InsertByPosition(sorted, m) ==
  IF sorted = <<>> THEN <<m>>
  ELSE IF sorted[Len(sorted)].position <= m.position THEN Append(sorted, m)
  ELSE Append(InsertByPosition(SubSeq(sorted, 1, Len(sorted) - 1), m),
              sorted[Len(sorted)])

RECURSIVE SortByPosition(_, _)
\* the first n mentions in the order of list.sort(key=lambda m: m.position),
\* which is stable
SortByPosition(mentions, n) ==
  IF n = 0 THEN <<>>
  ELSE InsertByPosition(SortByPosition(mentions, n - 1), mentions[n])

\* unique_mentions.sort(key=lambda m: m.position)
SortedByPosition(mentions) == SortByPosition(mentions, Len(mentions))

\* ------------------------------------------------------------------------
\* Alias resolution
\* ------------------------------------------------------------------------

RECURSIVE Replace(_, _, _)
\* str.replace(ch, rep)
Replace(s, ch, rep) ==
  IF s = <<>> THEN <<>>
  ELSE (IF Head(s) = ch THEN rep ELSE <<Head(s)>>) \o Replace(Tail(s), ch, rep)

\* the alias list _get_brand_aliases builds on a cache miss
generate_aliases(brand_name) ==
  LET spaced == IF Contains(brand_name, <<" ">>)
                THEN << Replace(brand_name, " ", <<>>),
                        Replace(brand_name, " ", <<"-">>),
                        Replace(brand_name, " ", <<"_">>) >>
                ELSE <<>>
      aliases == <<brand_name>> \o spaced
  IN  IF \A i \in 1..Len(aliases) : LowerStr(aliases[i]) # LowerStr(brand_name)
      THEN Append(aliases, LowerStr(brand_name))
      ELSE aliases

\* _get_brand_aliases that hands out a cached list without its first entry
get_brand_aliases_stale(brand_name, cache) ==
  IF brand_name \in DOMAIN cache THEN Tail(cache[brand_name])
  ELSE generate_aliases(brand_name)

\* the list _get_brand_aliases returns for a cache (a function on the brand
\* names resolved so far)
get_brand_aliases(brand_name, cache) ==
  IF brand_name \in DOMAIN cache THEN cache[brand_name]
  ELSE generate_aliases(brand_name)

\* _get_brand_aliases that caches the list as it stands before the
\* variations are appended
CacheAfterCanonicalOnly(brand_name, cache) ==
  IF brand_name \in DOMAIN cache THEN cache
  ELSE [b \in DOMAIN cache \cup {brand_name} |->
          IF b = brand_name THEN <<brand_name>> ELSE cache[b]]

\* _get_brand_aliases that keeps the entry of the brand resolved last and
\* drops the others
CacheAfterLatestOnly(brand_name, cache) ==
  [b \in {brand_name} |-> generate_aliases(brand_name)]

\* self.brand_aliases after _get_brand_aliases(brand_name)
CacheAfter(brand_name, cache) ==
  IF brand_name \in DOMAIN cache THEN cache
  ELSE [b \in DOMAIN cache \cup {brand_name} |->
          IF b = brand_name THEN generate_aliases(brand_name) ELSE cache[b]]

RECURSIVE AliasMentions(_, _, _, _, _, _, _, _)
AliasMentions(aliases, n, response_text, brand_name, include_context, context_window, nlp, now) ==
  IF n > Len(aliases) THEN <<>>
  ELSE find_brand_mentions(response_text, aliases[n], brand_name,
                           include_context, context_window, nlp, now)
       \o AliasMentions(aliases, n + 1, response_text, brand_name,
                        include_context, context_window, nlp, now)

\* the candidates of one brand before de-duplication
BrandCandidates(response_text, brand_name, include_context, context_window, cache, nlp, now) ==
  AliasMentions(get_brand_aliases(brand_name, cache), 1, response_text,
                brand_name, include_context, context_window, nlp, now)

\* _extract_brand_mentions that reports an absent brand by a record with
\* mentioned = False
extract_brand_mentions_marker(response_text, brand_name, include_context, context_window, cache, nlp, now) ==
  LET unique == deduplicate_mentions(
                  BrandCandidates(response_text, brand_name, include_context,
                                  context_window, cache, nlp, now))
      absent == [brand_name       |-> brand_name,
                 mentioned        |-> FALSE,
                 position         |-> 0,
                 mention_text     |-> <<>>,
                 context          |-> <<>>,
                 context_start    |-> 0,
                 context_end      |-> 0,
                 mention_type     |-> "direct",
                 sentiment_score  |-> [num |-> 0, den |-> 1],
                 sentiment_type   |-> "neutral",
                 prominence_score |-> 0,
                 confidence_score |-> 0,
                 extracted_at     |-> now,
                 metadata         |-> [search_term          |-> brand_name,
                                       match_start          |-> 0,
                                       match_end            |-> 0,
                                       pattern_type         |-> "direct",
                                       case_sensitive_match |-> FALSE,
                                       full_word_match      |-> FALSE]]
  IN  IF unique = <<>> THEN <<absent>> ELSE SortedByPosition(unique)

extract_brand_mentions(response_text, brand_name, include_context, context_window, cache, nlp, now) ==
  SortedByPosition(deduplicate_mentions(
      BrandCandidates(response_text, brand_name, include_context,
                      context_window, cache, nlp, now)))

\* ------------------------------------------------------------------------
\* Preprocessing
\* ------------------------------------------------------------------------

RECURSIVE CollapseSpaces(_, _)
\* re.sub(r'\s+', ' ', txt) from offset i
CollapseSpaces(txt, i) ==
  IF i >= Len(txt) THEN <<>>
  ELSE IF IsSpace(txt[i + 1])
       THEN <<" ">> \o CollapseSpaces(txt, i + RunLen(txt, i, "sp"))
       ELSE <<txt[i + 1]>> \o CollapseSpaces(txt, i + 1)

RECURSIVE Unwrap(_, _, _)
\* re.sub(d(.*?)d, r'\1', txt) from offset i, for a literal delimiter d
Unwrap(txt, d, i) ==
  IF i >= Len(txt) THEN <<>>
  ELSE LET open   == i + Len(d)
           closes == {j \in open..Len(txt) :
                        /\ StartsAt(txt, d, j)
                        /\ \A m \in (open + 1)..j : txt[m] # "\n"}
           close  == CHOOSE j \in closes : \A h \in closes : j <= h
       IN  IF StartsAt(txt, d, i) /\ closes # {}
           THEN Slice(txt, open, close) \o Unwrap(txt, d, close + Len(d))
           ELSE <<txt[i + 1]>> \o Unwrap(txt, d, i + 1)

\* the character U+0060 (grave accent, the markdown code mark)
BacktickChar == "U+0060"

preprocess_response(response_text) ==
  LET spaced == CollapseSpaces(Strip(response_text), 0)
      bold   == Unwrap(spaced, <<"*", "*">>, 0)
      italic == Unwrap(bold, <<"*">>, 0)
  IN  Unwrap(italic, <<BacktickChar>>, 0)

\* ------------------------------------------------------------------------
\* Response analysis and the entry point
\* ------------------------------------------------------------------------

\* the analysis with the positions listed in ascending order instead of in
\* the order of the mentions
analyze_response_structure_sorted(response_text, mentions, nlp) ==
  LET sentences == split_into_sentences(response_text, nlp)
  IN  [total_sentences    |-> Len(sentences),
       total_words        |-> WordCount(response_text),
       total_characters   |-> Len(response_text),
       mentions_per_sentence |->
         [num |-> Len(mentions), den |-> Max(Len(sentences), 1)],
       has_lists          |-> HasBullet(response_text),
       has_numbered_lists |-> HasNumbered(response_text),
       has_quotes         |-> Contains(response_text, <<"\"">>),
       mention_positions  |->
         [i \in 1..Len(mentions) |-> SortedByPosition(mentions)[i].position],
       mention_density    |->
         [num |-> Len(mentions), den |-> Max(WordCount(response_text), 1)],
       sentiment_distribution |->
         [t \in {"positive", "negative", "neutral", "mixed"} |->
            Cardinality({i \in 1..Len(mentions) : mentions[i].sentiment_type = t})]]

analyze_response_structure(response_text, mentions, nlp) ==
  LET sentences == split_into_sentences(response_text, nlp)
  IN  [total_sentences    |-> Len(sentences),
       total_words        |-> WordCount(response_text),
       total_characters   |-> Len(response_text),
       mentions_per_sentence |->
         [num |-> Len(mentions), den |-> Max(Len(sentences), 1)],
       has_lists          |-> HasBullet(response_text),
       has_numbered_lists |-> HasNumbered(response_text),
       has_quotes         |-> Contains(response_text, <<"\"">>),
       mention_positions  |-> [i \in 1..Len(mentions) |-> mentions[i].position],
       mention_density    |->
         [num |-> Len(mentions), den |-> Max(WordCount(response_text), 1)],
       sentiment_distribution |->
         [t \in {"positive", "negative", "neutral", "mixed"} |->
            Cardinality({i \in 1..Len(mentions) : mentions[i].sentiment_type = t})]]

\* An entry of brand_names that is no str: None.  Nothing checks the entries
\* of the list (the annotation List[str] is not enforced).
NoneBrand == <<"None">>

\* isinstance(brand_name, str)
IsStr(brand_name) == brand_name # NoneBrand

\* one round of the loop over brand_names: all_mentions.extend(mentions) and
\* the count of brands with a mention, ahead of what the later rounds add;
\* an exception of a later round leaves the loop
LoopRound(mentions, rest) ==
  [all_mentions     |-> mentions \o rest.all_mentions,
   brands_mentioned |-> (IF mentions # <<>> THEN 1 ELSE 0) + rest.brands_mentioned,
   cache            |-> rest.cache,
   raised           |-> rest.raised]

RECURSIVE BrandLoop(_, _, _, _, _, _, _, _)
\* The loop over brand_names of extract_citations from index n on, as
\* [all_mentions, brands_mentioned, cache, raised].  There is no try/except
\* around a round: for an entry that is no str, ' ' in brand_name raises
\* TypeError in _get_brand_aliases (before the entry is cached) and the
\* exception leaves the loop.
BrandLoop(brand_names, n, cleaned, include_context, context_window, cache, nlp, now) ==
  IF n > Len(brand_names)
  THEN [all_mentions |-> <<>>, brands_mentioned |-> 0, cache |-> cache,
        raised |-> <<>>]
  ELSE IF ~IsStr(brand_names[n])
  THEN [all_mentions |-> <<>>, brands_mentioned |-> 0, cache |-> cache,
        raised |-> <<"TypeError">>]
  ELSE LoopRound(extract_brand_mentions(cleaned, brand_names[n], include_context,
                                        context_window, cache, nlp, now),
                 BrandLoop(brand_names, n + 1, cleaned, include_context,
                           context_window, CacheAfter(brand_names[n], cache),
                           nlp, now))

\* CitationExtractionResult(...) as extract_citations fills it in from the
\* cleaned text and the outcome of the loop, with the alias cache left behind
\* and the exception that left the loop, if one did (then nothing is returned)
CitationExtractionResult(a, cleaned_response, loop, nlp, now) ==
  [cache |-> loop.cache,
   raised |-> loop.raised,
   result |->
     [query_text           |-> a.query_text,
      platform             |-> a.platform,
      response_text        |-> a.response_text,
      total_brands_checked |-> Len(a.brand_names),
      brands_mentioned     |-> loop.brands_mentioned,
      brand_mentions       |-> loop.all_mentions,
      response_analysis    |->
        analyze_response_structure(cleaned_response, loop.all_mentions, nlp),
      extraction_metadata  |->
        [response_length         |-> Len(a.response_text),
         cleaned_response_length |-> Len(cleaned_response),
         total_sentences         |-> Len(split_into_sentences(cleaned_response, nlp)),
         nlp_available           |-> nlp # "none",
         extraction_method       |-> IF nlp # "none" THEN "advanced"
                                     ELSE "pattern_based",
         context_window          |-> a.context_window],
      processed_at         |-> now]]

\* extract_citations from the cleaned text on
ExtractFromCleaned(a, cleaned_response, cache, nlp, now) ==
  CitationExtractionResult(a, cleaned_response,
    BrandLoop(a.brand_names, 1, cleaned_response, a.include_context,
              a.context_window, cache, nlp, now),
    nlp, now)

\* extract_citations once self.nlp is set: the CitationExtractionResult it
\* returns (or the exception it raises) and the alias cache it leaves behind.
\* No argument is validated: an empty brand_names and any context_window
\* run through the same code.
extract_citations(a, cache, nlp, now) ==
  ExtractFromCleaned(a, preprocess_response(a.response_text), cache, nlp, now)

\* ------------------------------------------------------------------------
\* Inputs
\* ------------------------------------------------------------------------

\* the brand name Slack
B_Slack == <<"S","l","a","c","k">>

\* the brand name Asana
B_Asana == <<"A","s","a","n","a">>

\* the brand name Trello
B_Trello == <<"T","r","e","l","l","o">>

\* the brand name Microsoft Teams
B_MicrosoftTeams == <<"M","i","c","r","o","s","o","f","t"," ","T","e","a","m","s">>

\* the brand name C++
B_Cpp == <<"C","+","+">>

\* the text I recommend Slack, it's excellent.
T_recommend ==
  << "I", " ", "r", "e", "c", "o", "m", "m", "e", "n", "d", " ",
     "S", "l", "a", "c", "k", ",", " ", "i", "t", "'", "s", " ",
     "e", "x", "c", "e", "l", "l", "e", "n", "t", "." >>

\* the text Asana vs Trello for task tracking
T_comparison ==
  << "A", "s", "a", "n", "a", " ", "v", "s", " ", "T", "r", "e",
     "l", "l", "o", " ", "f", "o", "r", " ", "t", "a", "s", "k",
     " ", "t", "r", "a", "c", "k", "i", "n", "g" >>

\* the text i use microsoft teams daily
T_lowercase ==
  << "i", " ", "u", "s", "e", " ", "m", "i", "c", "r", "o", "s",
     "o", "f", "t", " ", "t", "e", "a", "m", "s", " ", "d", "a",
     "i", "l", "y" >>

\* the text Slack is great for team chat.
T_exact ==
  << "S", "l", "a", "c", "k", " ", "i", "s", " ", "g", "r", "e",
     "a", "t", " ", "f", "o", "r", " ", "t", "e", "a", "m", " ",
     "c", "h", "a", "t", "." >>

\* the text This mentions no brand.
T_none ==
  << "T", "h", "i", "s", " ", "m", "e", "n", "t", "i", "o", "n",
     "s", " ", "n", "o", " ", "b", "r", "a", "n", "d", "." >>

\* the text use C++ now
T_cpp ==
  << "u", "s", "e", " ", "C", "+", "+", " ", "n", "o", "w" >>

\* the text   Tools: **SLACK** (or "Trello").\n1. try MicrosoftTeams! 
T_markup ==
  << " ", " ", "T", "o", "o", "l", "s", ":", " ", "*", "*", "S",
     "L", "A", "C", "K", "*", "*", " ", "(", "o", "r", " ", "\"",
     "T", "r", "e", "l", "l", "o", "\"", ")", ".", "\n", "1", ".",
     " ", "t", "r", "y", " ", "M", "i", "c", "r", "o", "s", "o",
     "f", "t", "T", "e", "a", "m", "s", "!", " " >>

\* the text v1.2 of Slack
T_version ==
  << "v", "1", ".", "2", " ", "o", "f", " ", "S", "l", "a", "c", "k" >>

\* the text try Slack and Slack
T_twice ==
  << "t", "r", "y", " ", "S", "l", "a", "c", "k", " ", "a", "n", "d", " ",
     "S", "l", "a", "c", "k" >>

\* the text Slackbot and slackers
T_embedded ==
  << "S", "l", "a", "c", "k", "b", "o", "t", " ", "a", "n", "d", " ",
     "s", "l", "a", "c", "k", "e", "r", "s" >>

\* the brand name Go<TAB>To: two words separated by a tab
B_Tabbed == <<"G","o","\t","T","o">>

\* the largest number of words of a generated response text
MaxWords == 2

\* the words generated response texts are made of
Vocabulary ==
  { <<"S","l","a","c","k">>, <<"s","l","a","c","k">>, <<"v","s">>,
    <<"i","s">>, <<"g","o","o","d",".">> }

RECURSIVE TextsOfWords(_)
\* the texts of exactly n words, joined by single spaces
TextsOfWords(n) ==
  IF n = 0 THEN {<<>>}
  ELSE {IF t = <<>> THEN w ELSE t \o <<" ">> \o w :
          t \in TextsOfWords(n - 1), w \in Vocabulary}

GeneratedTexts == UNION {TextsOfWords(n) : n \in 0..MaxWords}

ScenarioTexts ==
  {T_recommend, T_comparison, T_lowercase, T_exact, T_none, T_cpp, T_markup,
   T_version, T_twice, T_embedded}

BrandLists ==
  { <<B_Slack>>, <<B_Asana, B_Trello>>, <<B_Trello, B_Asana>>,
    <<B_MicrosoftTeams>>, <<B_Cpp>>, <<B_Slack, B_Slack>> }

\* context_window values: the default, a narrow window, a negative one
Windows == {150, 4, -2}

CallArgs(texts, lists, flags, windows) ==
  {[response_text   |-> t,
    query_text      |-> "q",
    brand_names     |-> b,
    platform        |-> "unknown",
    include_context |-> ic,
    context_window  |-> cw] : t \in texts, b \in lists, ic \in flags, cw \in windows}

\* brand lists at the edge of what a caller can pass: no brand at all, an
\* entry that is no str, a name whose words a tab separates
EdgeBrandLists ==
  { <<>>, <<B_Slack, NoneBrand>>, <<NoneBrand, B_Slack>>, <<B_Tabbed>> }

\* the calls of the single-call specification
CallInputs ==
  CallArgs(ScenarioTexts, BrandLists, BOOLEAN, Windows)
    \cup CallArgs(GeneratedTexts, {<<B_Slack>>}, BOOLEAN, Windows)
    \cup CallArgs({T_exact}, EdgeBrandLists \cup {<<B_Slack>>}, {TRUE}, {150, 0})

\* the text try Slack.
T_try == << "t", "r", "y", " ", "S", "l", "a", "c", "k", "." >>

\* the text Asana vs Trello
T_versus ==
  << "A", "s", "a", "n", "a", " ", "v", "s", " ", "T", "r", "e", "l", "l", "o" >>

\* the calls of the service specification
ServiceInputs ==
  CallArgs({T_try, T_versus}, {<<B_Slack>>, <<B_Asana, B_Trello>>},
           {TRUE}, {150})

\* the largest value of the wall clock
MaxClock == 1

\* ------------------------------------------------------------------------
\* State
\* ------------------------------------------------------------------------

VARIABLES
  nlp,              \* self.nlp: "none" or "loaded"
  brand_aliases,    \* self.brand_aliases: brand name -> alias list
  model_installed,  \* whether spacy.load("en_core_web_sm") succeeds
  now,              \* datetime.utcnow()
  pc,               \* "idle", or "called" while a call is in flight
  args,             \* <<a>>: the arguments of the current or the last call
  result,           \* <<r>>: the result returned for args, <<>> before
  raised,           \* <<e>>: the exception the last call ended with, or <<>>
  pinned,           \* <<[args, result]>>: an earlier call the caller kept
  dedup_input,      \* a list of mentions handed to _deduplicate_mentions
  dedup_list,       \* what the passes run so far have made of it
  dedup_passes,     \* how often _deduplicate_mentions has run
  calls,            \* the calls in flight on the event loop, per caller
  sentiment_text,   \* a text handed to _analyze_sentiment
  sentiment         \* <<s>>: the score and label it returned, <<>> before

vars == <<nlp, brand_aliases, model_installed, now, pc, args, result, raised,
          pinned, dedup_input, dedup_list, dedup_passes, calls,
          sentiment_text, sentiment>>

serviceVars ==
  <<nlp, brand_aliases, model_installed, now, pc, args, result, raised, pinned>>

dedupVars == <<dedup_input, dedup_list, dedup_passes>>

sentimentVars == <<sentiment_text, sentiment>>

\* the callers that share the service instance
Callers == {"a", "b"}

\* a caller that has no call in flight
IdleCall ==
  [pc |-> "idle", args |-> <<>>, cleaned |-> <<>>, n |-> 0, aliases |-> <<>>,
   all_mentions |-> <<>>, brands_mentioned |-> 0, result |-> <<>>,
   overlapped |-> FALSE]

NoCalls == [c \in Callers |-> IdleCall]

\* self.nlp after initialize()
initialize(handle, installed) ==
  IF handle = "none" THEN (IF installed THEN "loaded" ELSE "none") ELSE handle

\* CitationExtractionService.__init__: no handle, empty alias cache
InitService ==
  /\ nlp = "none"
  /\ brand_aliases = <<>>
  /\ model_installed \in BOOLEAN
  /\ now = 0
  /\ raised = <<>>
  /\ pinned = <<>>

InitDedupIdle ==
  /\ dedup_input = <<>>
  /\ dedup_list = <<>>
  /\ dedup_passes = 0

InitSentimentIdle ==
  /\ sentiment_text = <<>>
  /\ sentiment = <<>>

\* a caller invokes extract_citations(a)
Request(a) ==
  /\ pc = "idle"
  /\ pc' = "called"
  /\ args' = <<a>>
  /\ result' = <<>>
  /\ raised' = <<>>
  /\ UNCHANGED <<nlp, brand_aliases, model_installed, now, pinned, dedupVars, sentimentVars,
                 calls>>

\* extract_citations runs to completion (it never suspends: every awaited
\* coroutine returns without yielding to the event loop) and returns its
\* result, or ends with the exception that left the loop over the brands
Extract ==
  /\ pc = "called"
  /\ \E call \in {extract_citations(args[1], brand_aliases,
                                     initialize(nlp, model_installed), now)} :
        /\ nlp' = initialize(nlp, model_installed)
        /\ result' = IF call.raised = <<>> THEN <<call.result>> ELSE <<>>
        /\ raised' = call.raised
        /\ brand_aliases' = call.cache
  /\ pc' = "idle"
  /\ UNCHANGED <<model_installed, now, args, pinned, dedupVars, sentimentVars, calls>>

\* the wall clock advances
Tick ==
  /\ pc = "idle"
  /\ now < MaxClock
  /\ now' = now + 1
  /\ UNCHANGED <<nlp, brand_aliases, model_installed, pc, args, result, raised,
                 pinned, dedupVars, sentimentVars, calls>>

\* the caller keeps the result of the call that just returned
Pin ==
  /\ pc = "idle"
  /\ result # <<>>
  /\ pinned = <<>>
  /\ pinned' = <<[args |-> args[1], result |-> result[1]]>>
  /\ UNCHANGED <<nlp, brand_aliases, model_installed, now, pc, args, result,
                 raised, dedupVars, sentimentVars, calls>>

\* The service: calls arrive one after the other on one instance
Init ==
  /\ InitService
  /\ pc = "idle"
  /\ args = <<>>
  /\ result = <<>>
  /\ InitDedupIdle
  /\ calls = NoCalls
  /\ InitSentimentIdle

Next ==
  \/ \E a \in ServiceInputs : Request(a)
  \/ Extract
  \/ Tick
  \/ Pin

Spec == Init /\ [][Next]_vars

\* One call on a fresh instance, over the wide input set
InitCall ==
  /\ InitService
  /\ pc = "called"
  /\ args \in {<<a>> : a \in CallInputs}
  /\ result = <<>>
  /\ InitDedupIdle
  /\ calls = NoCalls
  /\ InitSentimentIdle

NextCall == Extract

SpecCall == InitCall /\ [][NextCall]_vars

\* ------------------------------------------------------------------------
\* The Deduplicator on its own
\* ------------------------------------------------------------------------

\* the longest list handed to the Deduplicator
MaxList == 3

\* the number of passes run over one list
MaxPasses == 2

\* mentions as far as _deduplicate_mentions reads them, with the mention
\* type to tell candidates of equal key and confidence apart
DedupMentions ==
  [position : {1, 2}, context_start : {0, 2}, context_end : {9},
   confidence_score : {500, 900}, mention_type : {"direct", "comparison"}]

RECURSIVE ListsOf(_, _)
\* the lists of exactly n elements of S
ListsOf(S, n) ==
  IF n = 0 THEN {<<>>}
  ELSE {Append(l, x) : l \in ListsOf(S, n - 1), x \in S}

InitDedup ==
  /\ nlp = "none"
  /\ brand_aliases = <<>>
  /\ model_installed = FALSE
  /\ now = 0
  /\ raised = <<>>
  /\ pinned = <<>>
  /\ pc = "idle"
  /\ args = <<>>
  /\ result = <<>>
  /\ calls = NoCalls
  /\ InitSentimentIdle
  /\ dedup_input \in UNION {ListsOf(DedupMentions, n) : n \in 0..MaxList}
  /\ dedup_list = dedup_input
  /\ dedup_passes = 0

\* one run of _deduplicate_mentions over the current list
Deduplicate ==
  /\ dedup_passes < MaxPasses
  /\ dedup_list' = deduplicate_mentions(dedup_list)
  /\ dedup_passes' = dedup_passes + 1
  /\ UNCHANGED <<serviceVars, dedup_input, calls, sentimentVars>>

NextDedup == Deduplicate

SpecDedup == InitDedup /\ [][NextDedup]_vars

\* ------------------------------------------------------------------------
\* Calls that overlap on the shared instance
\* ------------------------------------------------------------------------

\* the text use MicrosoftTeams
T_joined ==
  << "u", "s", "e", " ", "M", "i", "c", "r", "o", "s", "o", "f", "t",
     "T", "e", "a", "m", "s" >>

\* the calls of the specification of overlapping calls
ConcInputs ==
  CallArgs({T_try}, {<<B_Slack>>, <<B_MicrosoftTeams, B_Slack>>}, {TRUE}, {150})
    \cup CallArgs({T_joined}, {<<B_MicrosoftTeams>>}, {TRUE}, {150})

\* a call is in flight: started and not yet returned
InFlight(call) == call.pc \notin {"idle", "done"}

\* A caller invokes extract_citations(a).  A coroutine can be suspended at an
\* await at most; extract_citations awaits initialize(), and for every brand
\* _extract_brand_mentions, which awaits _get_brand_aliases.  Another call may
\* run at each of these points.
CallStart(c, a) ==
  /\ ~InFlight(calls[c])
  /\ calls' = [d \in Callers |->
                 IF d = c
                 THEN [IdleCall EXCEPT !.pc = "initialize", !.args = <<a>>,
                         !.overlapped = \E e \in Callers \ {c} : InFlight(calls[e])]
                 ELSE IF InFlight(calls[d])
                      THEN [calls[d] EXCEPT !.overlapped = TRUE]
                      ELSE calls[d]]
  /\ UNCHANGED <<serviceVars, dedupVars, sentimentVars>>

\* await self.initialize(), then _preprocess_response
CallInitialize(c) ==
  /\ calls[c].pc = "initialize"
  /\ nlp' = initialize(nlp, model_installed)
  /\ calls' = [calls EXCEPT
                 ![c].cleaned = preprocess_response(calls[c].args[1].response_text),
                 ![c].n = 1,
                 ![c].pc = IF calls[c].args[1].brand_names = <<>>
                           THEN "build" ELSE "resolve"]
  /\ UNCHANGED <<brand_aliases, model_installed, now, pc, args, result, raised,
                 pinned, dedupVars, sentimentVars>>

\* await self._get_brand_aliases(brand_name) for the brand the loop is at
CallResolve(c) ==
  /\ calls[c].pc = "resolve"
  /\ calls' = [calls EXCEPT
                 ![c].aliases =
                    get_brand_aliases(calls[c].args[1].brand_names[calls[c].n],
                                      brand_aliases),
                 ![c].pc = "match"]
  /\ brand_aliases' = CacheAfter(calls[c].args[1].brand_names[calls[c].n],
                                 brand_aliases)
  /\ UNCHANGED <<nlp, model_installed, now, pc, args, result, raised, pinned,
                 dedupVars, sentimentVars>>

\* what one round of the loop adds to the call: the brand's mentions, found
\* with the aliases the call holds, and the count
AfterRound(call, mentions) ==
  [call EXCEPT
     !.all_mentions = call.all_mentions \o mentions,
     !.brands_mentioned = call.brands_mentioned + (IF mentions # <<>> THEN 1 ELSE 0),
     !.n = call.n + 1,
     !.pc = IF call.n = Len(call.args[1].brand_names) THEN "build" ELSE "resolve"]

\* the rest of _extract_brand_mentions and of the round of the loop
CallMatch(c) ==
  /\ calls[c].pc = "match"
  /\ calls' = [calls EXCEPT ![c] =
        AfterRound(calls[c],
          SortedByPosition(deduplicate_mentions(
            AliasMentions(calls[c].aliases, 1, calls[c].cleaned,
                          calls[c].args[1].brand_names[calls[c].n],
                          calls[c].args[1].include_context,
                          calls[c].args[1].context_window, nlp, now))))]
  /\ UNCHANGED <<serviceVars, dedupVars, sentimentVars>>

\* the analysis, the metadata and the return of the result
CallFinish(c) ==
  /\ calls[c].pc = "build"
  /\ calls' = [calls EXCEPT
        ![c].result =
           <<CitationExtractionResult(calls[c].args[1], calls[c].cleaned,
               [all_mentions     |-> calls[c].all_mentions,
                brands_mentioned |-> calls[c].brands_mentioned,
                cache            |-> brand_aliases,
                raised           |-> <<>>],
               nlp, now).result>>,
        ![c].pc = "done"]
  /\ UNCHANGED <<serviceVars, dedupVars, sentimentVars>>

NextConc ==
  \E c \in Callers :
    \/ \E a \in ConcInputs : CallStart(c, a)
    \/ CallInitialize(c)
    \/ CallResolve(c)
    \/ CallMatch(c)
    \/ CallFinish(c)

SpecConc == Init /\ [][NextConc]_vars

\* what each call of ConcInputs returns when it runs alone on a fresh
\* instance, with and without the NLP model
AloneResult ==
  [a \in ConcInputs, installed \in BOOLEAN |->
     extract_citations(a, <<>>, initialize("none", installed), 0).result]

\* ------------------------------------------------------------------------
\* The sentiment scorer on its own
\* ------------------------------------------------------------------------

\* the largest number of positive and of negative keywords in a scored text
MaxHits == 4

\* the largest number of words of the short scored texts
MaxFewWords == 12

\* the number of words of the long scored texts
LongTextWords == 100

\* n times the word w, each followed by a space
Repeated(w, n) ==
  [i \in 1..(n * (Len(w) + 1)) |->
     IF i % (Len(w) + 1) = 0 THEN " " ELSE w[i % (Len(w) + 1)]]

\* a text of total_words words of which positive_count are the keyword good
\* and negative_count the keyword bad
TextOfCounts(positive_count, negative_count, total_words) ==
  Strip(Repeated(<<"g","o","o","d">>, positive_count)
        \o Repeated(<<"b","a","d">>, negative_count)
        \o Repeated(<<"x">>, total_words - positive_count - negative_count))

\* the texts handed to the scorer: every mix of keywords in a short and in a
\* long text, the empty text and a text of white space only
SentimentTexts ==
  {TextOfCounts(c[1], c[2], c[3]) :
     c \in {d \in (0..MaxHits) \X (0..MaxHits)
                    \X ((0..MaxFewWords) \cup {LongTextWords}) :
              d[1] + d[2] <= d[3]}}
    \cup {<<" ", " ">>}

InitSentiment ==
  /\ nlp = "none"
  /\ brand_aliases = <<>>
  /\ model_installed = FALSE
  /\ now = 0
  /\ raised = <<>>
  /\ pinned = <<>>
  /\ pc = "idle"
  /\ args = <<>>
  /\ result = <<>>
  /\ calls = NoCalls
  /\ InitDedupIdle
  /\ sentiment_text \in SentimentTexts
  /\ sentiment = <<>>

\* one run of _analyze_sentiment over the text
AnalyzeSentiment ==
  /\ sentiment = <<>>
  /\ sentiment' = <<analyze_sentiment(sentiment_text)>>
  /\ UNCHANGED <<serviceVars, dedupVars, calls, sentiment_text>>

NextSentiment == AnalyzeSentiment

SpecSentiment == InitSentiment /\ [][NextSentiment]_vars

\* ------------------------------------------------------------------------
\* Properties
\* ------------------------------------------------------------------------

\* a call has returned
HasResult == pc = "idle" /\ result # <<>>

\* the text the matcher scanned in the call that returned
CleanedText == preprocess_response(args[1].response_text)

\* name occurs in txt at offset i, character for character
OccursAt(txt, name, i) ==
  i + Len(name) <= Len(txt) /\ SubSeq(txt, i + 1, i + Len(name)) = name

\* name occurs in txt at offset i up to letter case
OccursAtAnyCase(txt, name, i) ==
  /\ i + Len(name) <= Len(txt)
  /\ LowerStr(SubSeq(txt, i + 1, i + Len(name))) = LowerStr(name)

OccursAnyCase(txt, name) == \E i \in 0..Len(txt) : OccursAtAnyCase(txt, name, i)

\* name occurs in txt as a full word, character for character
OccursAsFullWord(txt, name) ==
  \E i \in 0..Len(txt) :
     /\ OccursAt(txt, name, i)
     /\ i = 0 \/ ~IsAlnum(txt[i])
     /\ i + Len(name) = Len(txt) \/ ~IsAlnum(txt[i + Len(name) + 1])

\* the indices of the returned mentions of brand b
MentionsOfBrand(b) ==
  {j \in 1..Len(result[1].brand_mentions) : result[1].brand_mentions[j].brand_name = b}

\* C1: every requested brand whose canonical name occurs verbatim as a full
\* word in response_text has a returned mention whose mention_text is
\* exactly that name (stated for the positive context windows the interface
\* admits).
C1_Completeness ==
  (HasResult /\ args[1].context_window > 0) =>
    \A k \in 1..Len(args[1].brand_names) :
       LET b == args[1].brand_names[k]
       IN  OccursAsFullWord(args[1].response_text, b)
             => \E j \in MentionsOfBrand(b) :
                   result[1].brand_mentions[j].mention_text = b

\* C2: for every returned mention, whatever include_context and
\* context_window the call was given,
\* 0 <= context_start <= match_start <= match_end <= context_end
\*   <= len(response_text).
C2_ContextBounds ==
  HasResult =>
    \A j \in 1..Len(result[1].brand_mentions) :
       LET m == result[1].brand_mentions[j]
       IN  /\ 0 <= m.context_start
           /\ m.context_start <= m.metadata.match_start
           /\ m.metadata.match_start <= m.metadata.match_end
           /\ m.metadata.match_end <= m.context_end
           /\ m.context_end <= Len(result[1].response_text)

\* C3: every returned mention has sentiment_score in [-1, 1],
\* prominence_score in [0, 1] and confidence_score in [0, 1].
C3_ScoreRanges ==
  HasResult =>
    \A j \in 1..Len(result[1].brand_mentions) :
       LET m == result[1].brand_mentions[j]
       IN  /\ m.sentiment_score.den > 0
           /\ -m.sentiment_score.den <= m.sentiment_score.num
           /\ m.sentiment_score.num <= m.sentiment_score.den
           /\ 0 <= m.prominence_score /\ m.prominence_score <= 100
           /\ 0 <= m.confidence_score /\ m.confidence_score <= 1000

\* C3 witness: a returned mention whose sentiment and prominence sit at the
\* upper end of their ranges (lexicon hits and position bonus exceed them
\* before clamping)
C3_Witness ==
  /\ HasResult
  /\ \E j \in 1..Len(result[1].brand_mentions) :
        LET m == result[1].brand_mentions[j]
        IN  /\ m.sentiment_score.num = m.sentiment_score.den
            /\ m.sentiment_score.den >= 10
            /\ m.prominence_score = 100
            /\ m.confidence_score > 0

\* a result without processed_at
WithoutProcessedAt(r) == [r EXCEPT !.processed_at = 0]

\* a result without processed_at and without its mentions' extracted_at
WithoutTimestamps(r) ==
  [r EXCEPT !.processed_at = 0,
            !.brand_mentions = [j \in 1..Len(r.brand_mentions) |->
                                  [r.brand_mentions[j] EXCEPT !.extracted_at = 0]]]

\* the call that returned last had the arguments of the call the caller kept
SameCallAgain == HasResult /\ pinned # <<>> /\ args[1] = pinned[1].args

\* C4 as stated: two calls with identical inputs on one instance return
\* results identical in every field except processed_at.
C4_IdenticalExceptProcessedAt ==
  SameCallAgain =>
    WithoutProcessedAt(result[1]) = WithoutProcessedAt(pinned[1].result)

\* C4 amended: two calls with identical inputs on one instance return
\* results identical in every field except processed_at and the
\* extracted_at of each mention, whatever calls happened in between.
C4_Determinism ==
  SameCallAgain =>
    WithoutTimestamps(result[1]) = WithoutTimestamps(pinned[1].result)

\* C4 witness: the same call answered again at a later time, with mentions,
\* after the alias cache has grown beyond the brands of that call
C4_Witness ==
  /\ SameCallAgain
  /\ result[1].processed_at # pinned[1].result.processed_at
  /\ result[1].brand_mentions # <<>>
  /\ \E b \in DOMAIN brand_aliases :
        \A k \in 1..Len(args[1].brand_names) : args[1].brand_names[k] # b

\* C5: a pass of _deduplicate_mentions over the output of an earlier pass
\* changes nothing (same elements, same order).
C5_DedupIdempotent ==
  [][dedup_passes >= 1 => dedup_list' = dedup_list]_vars

\* C5 witness: a second pass has run over a list of several mentions from
\* which the first pass had removed duplicates
C5_Witness ==
  /\ dedup_passes = 2
  /\ Len(dedup_list) >= 2
  /\ Len(dedup_list) < Len(dedup_input)

\* no alias of any requested brand occurs, in any letter case, in the text
\* the matcher scans
NoBrandInText ==
  \A k \in 1..Len(args[1].brand_names) :
     LET aliases == generate_aliases(args[1].brand_names[k])
     IN  \A n \in 1..Len(aliases) : ~OccursAnyCase(CleanedText, aliases[n])

\* C6: when no alias of any requested brand occurs in the response text,
\* brands_mentioned is 0, brand_mentions is empty (no record at all for an
\* absent brand) and total_brands_checked is the number of brands requested.
C6_NoMentions ==
  (HasResult /\ NoBrandInText) =>
    /\ result[1].brands_mentioned = 0
    /\ result[1].brand_mentions = <<>>
    /\ result[1].total_brands_checked = Len(args[1].brand_names)

\* C6 witness: a call with two brands on a text of several words that names
\* neither has returned
C6_Witness ==
  /\ HasResult
  /\ NoBrandInText
  /\ Len(args[1].brand_names) = 2
  /\ WordCount(CleanedText) >= 2

\* C7: a requested brand whose name occurs in the response text in any
\* letter case is found: it has a returned mention whose matched span is an
\* occurrence of the name in the scanned text, and every such entry of
\* brand_names is counted in brands_mentioned.
C7_CaseInsensitive ==
  HasResult =>
    LET found == {k \in 1..Len(args[1].brand_names) :
                    OccursAnyCase(CleanedText, args[1].brand_names[k])}
    IN  /\ \A k \in found :
              \E j \in MentionsOfBrand(args[1].brand_names[k]) :
                 LET m == result[1].brand_mentions[j]
                 IN  /\ OccursAnyCase(m.mention_text, args[1].brand_names[k])
                     /\ m.metadata.match_start >= 0
                     /\ OccursAt(CleanedText, m.mention_text, m.metadata.match_start)
                     /\ m.metadata.match_end
                          = m.metadata.match_start + Len(m.mention_text)
        /\ result[1].brands_mentioned >= Cardinality(found)

\* C7 witness: a brand that occurs in the text only in another letter case
\* than its canonical name has been found and counted
C7_Witness ==
  /\ HasResult
  /\ result[1].brands_mentioned >= 1
  /\ \E j \in 1..Len(result[1].brand_mentions) :
        LET m == result[1].brand_mentions[j]
        IN  /\ LowerStr(m.mention_text) = LowerStr(m.brand_name)
            /\ m.mention_text # m.brand_name
            /\ \A i \in 0..Len(CleanedText) : ~OccursAt(CleanedText, m.brand_name, i)

\* b1 and b2 occur in txt joined by the connective vs
JoinedByVs(txt, b1, b2) ==
  \E i \in 0..Len(txt) : OccursAt(txt, b1 \o <<" ", "v", "s", " ">> \o b2, i)

\* C8: when the two requested brands appear joined by a comparison
\* connective, as in 'Asana vs Trello for task tracking' with brands
\* [Asana, Trello], exactly two mentions are returned and both have
\* mention_type COMPARISON (stated for positive context windows).
C8_ComparisonScenario ==
  (/\ HasResult
   /\ args[1].context_window > 0
   /\ Len(args[1].brand_names) = 2
   /\ JoinedByVs(CleanedText, args[1].brand_names[1], args[1].brand_names[2]))
  => /\ Len(result[1].brand_mentions) = 2
     /\ \A j \in 1..2 : result[1].brand_mentions[j].mention_type = "comparison"

\* the number of offsets at which name occurs in txt, in any letter case
OccurrenceCount(txt, name) ==
  Cardinality({i \in 0..Len(txt) : OccursAtAnyCase(txt, name, i)})

\* C9: when the single occurrence of a brand is matched by several typed
\* patterns (as in 'I recommend Slack, it's excellent.'), exactly one
\* mention of it is returned and it carries the highest confidence score of
\* the candidates, for every positive context_window and either
\* include_context.
C9_OneMentionPerOccurrence ==
  (/\ HasResult
   /\ args[1].context_window > 0
   /\ Len(args[1].brand_names) = 1
   /\ OccurrenceCount(CleanedText, args[1].brand_names[1]) = 1)
  => LET candidates ==
           BrandCandidates(CleanedText, args[1].brand_names[1],
                           args[1].include_context, args[1].context_window,
                           <<>>, nlp, now)
     IN  Len(candidates) >= 2 =>
           /\ Len(result[1].brand_mentions) = 1
           /\ \A n \in 1..Len(candidates) :
                 candidates[n].confidence_score
                   <= result[1].brand_mentions[1].confidence_score

\* C10: brand_mentions of a result is sorted by position ascending across
\* all brands (stated for positive context windows).
C10_SortedByPosition ==
  (HasResult /\ args[1].context_window > 0) =>
    \A i, j \in 1..Len(result[1].brand_mentions) :
       i < j => result[1].brand_mentions[i].position
                  <= result[1].brand_mentions[j].position

\* ------------------------------------------------------------------------
\* Counts, errors, positions, offsets, aliases, overlapping calls
\* ------------------------------------------------------------------------

\* a call has ended, with a result or with an exception
HasReturned == pc = "idle" /\ args # <<>>

\* the brands, as names, that have a mention in the result
BrandsWithMention ==
  {args[1].brand_names[k] : k \in 1..Len(args[1].brand_names)}
    \cap {result[1].brand_mentions[j].brand_name :
            j \in 1..Len(result[1].brand_mentions)}

\* C11: total_brands_checked is the number of entries of brand_names and
\* brands_mentioned is the number of brands that have at least one mention in
\* brand_mentions, hence at most total_brands_checked, also when brand_names
\* holds a name more than once (stated for positive context windows).
C11_ResultCounts ==
  (HasResult /\ args[1].context_window > 0) =>
    /\ result[1].total_brands_checked = Len(args[1].brand_names)
    /\ result[1].brands_mentioned = Cardinality(BrandsWithMention)
    /\ result[1].brands_mentioned <= result[1].total_brands_checked

\* the arguments the interface rules out: no brand, or a window that is not
\* positive
InvalidArgs(a) == a.brand_names = <<>> \/ a.context_window <= 0

\* C12: a call with an empty brand_names or with context_window <= 0 ends
\* with InvalidInput and returns no result.
C12_InvalidInput ==
  (HasReturned /\ InvalidArgs(args[1])) =>
    /\ result = <<>>
    /\ raised = <<"InvalidInput">>

\* the entries of brand_names whose processing raises
FailingBrands(a) == {k \in 1..Len(a.brand_names) : ~IsStr(a.brand_names[k])}

\* the call without the entries whose processing raises
WithoutFailing(a) == [a EXCEPT !.brand_names = SelectSeq(a.brand_names, IsStr)]

\* C13: when the processing of one brand raises, the call still returns a
\* result, the brand has no mention in it, and the other brands have the
\* mentions they have in a call without the failing brand (stated for
\* positive context windows).
C13_FailureIsolation ==
  (/\ HasReturned
   /\ args[1].context_window > 0
   /\ FailingBrands(args[1]) # {})
  => /\ raised = <<>>
     /\ result # <<>>
     /\ result[1].brand_mentions
          = extract_citations(WithoutFailing(args[1]), <<>>, nlp, now)
              .result.brand_mentions

\* C14: the position of a mention is the 1-based index of the sentence that
\* holds the match: it is 1 for a match before which the text has no sentence
\* terminator, and it never exceeds the number of sentences of the response
\* (stated for positive context windows).
C14_PositionSemantics ==
  (HasResult /\ args[1].context_window > 0) =>
    \A j \in 1..Len(result[1].brand_mentions) :
       LET m == result[1].brand_mentions[j]
       IN  /\ m.position >= 1
           /\ m.position <= result[1].extraction_metadata.total_sentences
           /\ (\A i \in 1..m.metadata.match_start : ~IsTerminator(CleanedText[i]))
                => m.position = 1

\* C15: the recorded match span of every mention indexes the verbatim input:
\* response_text[match_start:match_end] of the result is the mention_text
\* (stated for positive context windows).
C15_OffsetsIntoOriginal ==
  (HasResult /\ args[1].context_window > 0) =>
    \A j \in 1..Len(result[1].brand_mentions) :
       LET m == result[1].brand_mentions[j]
       IN  /\ m.metadata.match_end <= Len(result[1].response_text)
           /\ Slice(result[1].response_text, m.metadata.match_start,
                    m.metadata.match_end) = m.mention_text

\* a name holds a white-space character
HasWhitespace(name) == \E i \in 1..Len(name) : IsSpace(name[i])

RECURSIVE SeparatedBy(_, _)
\* the name with every white-space character replaced by sep
SeparatedBy(name, sep) ==
  IF name = <<>> THEN <<>>
  ELSE (IF IsSpace(Head(name)) THEN sep ELSE <<Head(name)>>)
       \o SeparatedBy(Tail(name), sep)

\* the alias lists the resolver has returned: the cache, once a call has ended
ResolvedBrands == IF pc = "idle" THEN DOMAIN brand_aliases ELSE {}

\* C16: the alias list of every brand name starts with the canonical name,
\* holds the no-space, the hyphenated and the underscored variant when the
\* name holds white space, and holds no entry twice.
C16_AliasGeneration ==
  \A b \in ResolvedBrands :
     LET aliases == brand_aliases[b]
     IN  /\ aliases # <<>> /\ aliases[1] = b
         /\ HasWhitespace(b) =>
              \A sep \in {<<>>, <<"-">>, <<"_">>} :
                 \E i \in 1..Len(aliases) : aliases[i] = SeparatedBy(b, sep)
         /\ \A i, j \in 1..Len(aliases) : i # j => aliases[i] # aliases[j]

\* C17: the alias list of every brand name holds the lower-cased name.
C17_LowerCasedAlias ==
  \A b \in ResolvedBrands :
     \E i \in 1..Len(brand_aliases[b]) : brand_aliases[b][i] = LowerStr(b)

\* C18: whatever calls overlap with it on the shared instance, a call returns
\* the result it returns when it runs alone.
C18_NoInterference ==
  \A c \in Callers :
     calls[c].pc = "done" =>
       calls[c].result[1] = AloneResult[calls[c].args[1], model_installed]

\* C18 witness: a call that found mentions of a brand with several aliases
\* has returned after it ran while another call was in flight, and the other
\* call has put that brand into the cache
C18_Witness ==
  \E c \in Callers :
     /\ calls[c].pc = "done"
     /\ calls[c].overlapped
     /\ calls[c].result[1].brand_mentions # <<>>
     /\ \E d \in Callers \ {c} :
           /\ calls[d].args # <<>>
           /\ calls[d].args[1] # calls[c].args[1]
           /\ calls[d].n >= 1
     /\ \E k \in 1..Len(calls[c].args[1].brand_names) :
           Len(generate_aliases(calls[c].args[1].brand_names[k])) > 1

\* the sentences of txt by the splitter that belongs to the recorded method
SentencesBy(method, txt) ==
  IF method = "advanced" THEN NlpSentences(txt) ELSE BasicSentences(txt)

\* C19: a call does not fail for want of the NLP model; the recorded
\* extraction_method is pattern_based exactly when the model could not be
\* loaded and advanced exactly when it was used, and every sentence count and
\* every position of the result comes from the splitter of the recorded
\* method (stated for calls whose brand_names are all strings).
C19_DegradedMode ==
  (HasReturned /\ FailingBrands(args[1]) = {}) =>
    /\ raised = <<>>
    /\ result # <<>>
    /\ LET meta   == result[1].extraction_metadata
           method == meta.extraction_method
       IN  /\ method = (IF model_installed THEN "advanced" ELSE "pattern_based")
           /\ meta.nlp_available = (method = "advanced")
           /\ meta.total_sentences = Len(SentencesBy(method, CleanedText))
           /\ result[1].response_analysis.total_sentences
                = Len(SentencesBy(method, CleanedText))
           /\ \A j \in 1..Len(result[1].brand_mentions) :
                 LET m == result[1].brand_mentions[j]
                 IN  m.position
                       = Len(SentencesBy(method,
                               Slice(CleanedText, 0, m.metadata.match_start))) + 1

\* C19 witness: a call without the model has returned a mention whose
\* position the other splitter would have put elsewhere
C19_Witness ==
  /\ HasResult
  /\ ~model_installed
  /\ result[1].extraction_metadata.extraction_method = "pattern_based"
  /\ \E j \in 1..Len(result[1].brand_mentions) :
        LET m == result[1].brand_mentions[j]
        IN  m.position
              # Len(NlpSentences(Slice(CleanedText, 0, m.metadata.match_start))) + 1

\* the candidates of the input of the first pass that have the key of m
SameKey(m) == {i \in 1..Len(dedup_input) : DedupKey(dedup_input[i]) = DedupKey(m)}

\* the first of the candidates with the key of m that have the highest
\* confidence among them
Winner(m) ==
  CHOOSE i \in SameKey(m) :
     /\ \A h \in SameKey(m) :
           dedup_input[h].confidence_score <= dedup_input[i].confidence_score
     /\ \A h \in SameKey(m) :
           dedup_input[h].confidence_score = dedup_input[i].confidence_score
             => i <= h

\* C20: after _deduplicate_mentions no two survivors share the key
\* (position, context_start, context_end), every key of the input has a
\* survivor, and the survivor of a key is the first of the candidates with
\* the highest confidence for that key.
C20_DedupWinner ==
  dedup_passes = 1 =>
    /\ \A i, j \in 1..Len(dedup_list) :
          i # j => DedupKey(dedup_list[i]) # DedupKey(dedup_list[j])
    /\ \A i \in 1..Len(dedup_input) :
          \E j \in 1..Len(dedup_list) :
             DedupKey(dedup_list[j]) = DedupKey(dedup_input[i])
    /\ \A j \in 1..Len(dedup_list) :
          dedup_list[j] = dedup_input[Winner(dedup_list[j])]

\* C20 witness: a pass has run over a list in which two different candidates
\* share key and confidence and a third, weaker one came first
C20_Witness ==
  /\ dedup_passes = 1
  /\ Len(dedup_input) = 3
  /\ Len(dedup_list) = 1
  /\ dedup_input[1].confidence_score < dedup_input[2].confidence_score
  /\ dedup_input[2].confidence_score = dedup_input[3].confidence_score
  /\ dedup_input[2] # dedup_input[3]

\* ------------------------------------------------------------------------
\* Spans, fallback, scores, windows, analysis, types, cache
\* ------------------------------------------------------------------------

\* the candidates of brand b in the call that returned, before
\* de-duplication
CandidatesOf(b) ==
  BrandCandidates(CleanedText, b, args[1].include_context,
                  args[1].context_window, <<>>, nlp, now)

\* the character span of a mention
Span(m) == <<m.metadata.match_start, m.metadata.match_end>>

\* the spans of the candidates whose text is the brand itself
BrandSpans(candidates, b) ==
  {Span(candidates[i]) :
     i \in {h \in 1..Len(candidates) :
              LowerStr(candidates[h].mention_text) = LowerStr(b)}}

\* the spans of the returned mentions of brand b
ReturnedSpans(b) ==
  {Span(result[1].brand_mentions[j]) : j \in MentionsOfBrand(b)}

\* C21: two occurrences of a brand that the matcher found at disjoint
\* character spans are both returned, each as a mention of its own span
\* (stated for positive context windows).
C21_DisjointSpansSurvive ==
  (HasResult /\ args[1].context_window > 0) =>
    \A k \in 1..Len(args[1].brand_names) :
       \A s1, s2 \in BrandSpans(CandidatesOf(args[1].brand_names[k]),
                                args[1].brand_names[k]) :
          (s1[2] <= s2[1]) =>
            {s1, s2} \subseteq ReturnedSpans(args[1].brand_names[k])

RECURSIVE LiteralOccurrences(_, _, _)
\* the offsets of the non-overlapping occurrences of name in txt up to
\* letter case, from offset i on and from left to right
LiteralOccurrences(txt, name, i) ==
  IF i + Len(name) > Len(txt) THEN <<>>
  ELSE IF OccursAtAnyCase(txt, name, i)
       THEN <<i>> \o LiteralOccurrences(txt, name, i + Len(name))
  ELSE LiteralOccurrences(txt, name, i + 1)

\* what _find_brand_mentions found for an alias, against what the typed
\* patterns found and the literal occurrences of the alias
FallbackAsStated(typed, found, occurrences, alias) ==
  IF typed # <<>> THEN found = typed
  ELSE /\ Len(found) = Len(occurrences)
       /\ \A i \in 1..Len(found) :
             /\ found[i].mention_type = "direct"
             /\ found[i].metadata.match_start = occurrences[i]
             /\ found[i].metadata.match_end = occurrences[i] + Len(alias)
             /\ LowerStr(found[i].mention_text) = LowerStr(alias)

\* the typed-pattern mentions of an alias in the call that returned
TypedOf(b, alias) ==
  TypedMentions(1, CleanedText, alias, b, args[1].include_context,
                args[1].context_window, nlp, now)

\* the mentions _find_brand_mentions returns for an alias in the call that
\* returned
FoundOf(b, alias) ==
  find_brand_mentions(CleanedText, alias, b, args[1].include_context,
                      args[1].context_window, nlp, now)

\* the brands, as names, of the call that returned
RequestedBrands == {args[1].brand_names[k] : k \in 1..Len(args[1].brand_names)}

\* the (brand, alias) pairs the call that returned searched for
SearchedAliases ==
  UNION {{<<b, generate_aliases(b)[i]>> : i \in 1..Len(generate_aliases(b))} :
           b \in RequestedBrands}

\* C22: for each alias the literal search runs exactly when no typed pattern
\* matched for that alias: with a typed match the candidates are the typed
\* ones alone, without one they are one DIRECT candidate per non-overlapping
\* literal occurrence of the alias, up to letter case.
C22_UntypedFallback ==
  HasResult =>
    \A s \in SearchedAliases :
       FallbackAsStated(TypedOf(s[1], s[2]), FoundOf(s[1], s[2]),
                        LiteralOccurrences(CleanedText, s[2], 0), s[2])

\* C22 witness: a call has returned two mentions that the literal search
\* produced for an alias no typed pattern matched
C22_Witness ==
  /\ HasResult
  /\ \E s \in SearchedAliases :
        /\ TypedOf(s[1], s[2]) = <<>>
        /\ Len(FoundOf(s[1], s[2])) = 2
        /\ \A i \in 1..2 :
              \E j \in MentionsOfBrand(s[1]) :
                 result[1].brand_mentions[j] = FoundOf(s[1], s[2])[i]

\* the positive keywords counted in the scored text
PositiveHits ==
  SumCounts(LowerStr(sentiment_text), PositiveKeywords, Len(PositiveKeywords))

\* the negative keywords counted in the scored text
NegativeHits ==
  SumCounts(LowerStr(sentiment_text), NegativeKeywords, Len(NegativeKeywords))

\* the score (positive_hits - negative_hits) / max(word_count / 10, 1),
\* clamped to [-1, 1], as the fraction num / den with den = max(word_count, 10)
StatedScore(positive_hits, negative_hits, word_count) ==
  [num |-> Clamp(-Max(word_count, 10), Max(word_count, 10),
                 10 * (positive_hits - negative_hits)),
   den |-> Max(word_count, 10)]

\* the label stated for a score and the two hit counts
StatedLabel(score, positive_hits, negative_hits) ==
  IF 10 * score.num > score.den THEN "positive"
  ELSE IF 10 * score.num < -score.den THEN "negative"
  ELSE IF positive_hits > 0 /\ negative_hits > 0 THEN "mixed"
  ELSE "neutral"

\* C23: with score = clamp((positive_hits - negative_hits)
\* / max(word_count / 10, 1), -1, 1) the label is POSITIVE iff score > 0.1,
\* NEGATIVE iff score < -0.1, MIXED iff the score is within the band and
\* both hit counts are positive, NEUTRAL otherwise; a text without a word
\* yields (0, NEUTRAL).
C23_SentimentLabel ==
  sentiment # <<>> =>
    IF WordCount(sentiment_text) = 0
    THEN sentiment[1].num = 0 /\ sentiment[1].type = "neutral"
    ELSE /\ sentiment[1].num * StatedScore(PositiveHits, NegativeHits,
                                           WordCount(sentiment_text)).den
              = sentiment[1].den * StatedScore(PositiveHits, NegativeHits,
                                               WordCount(sentiment_text)).num
         /\ sentiment[1].type
              = StatedLabel(StatedScore(PositiveHits, NegativeHits,
                                        WordCount(sentiment_text)),
                            PositiveHits, NegativeHits)

\* the sentence of the cleaned text that holds mention m, by the sentence
\* number the mention carries
SentenceOf(m) == split_into_sentences(CleanedText, nlp)[m.position]

\* C24: in a call with include_context = false each mention's sentiment is
\* the sentiment of the sentence that contains the mention, so that a
\* sentiment word elsewhere in the sentence is counted.
C24_SentimentOfSentence ==
  (HasResult /\ ~args[1].include_context) =>
    \A j \in 1..Len(result[1].brand_mentions) :
       result[1].brand_mentions[j].position
           <= Len(split_into_sentences(CleanedText, nlp)) =>
         /\ result[1].brand_mentions[j].sentiment_type
              = analyze_sentiment(SentenceOf(result[1].brand_mentions[j])).type
         /\ result[1].brand_mentions[j].sentiment_score.num
               * analyze_sentiment(SentenceOf(result[1].brand_mentions[j])).den
              = result[1].brand_mentions[j].sentiment_score.den
               * analyze_sentiment(SentenceOf(result[1].brand_mentions[j])).num

\* the mention-type weights as stated, in 1/10
StatedWeight ==
  [direct |-> 9, recommendation |-> 8, comparison |-> 8, review |-> 7,
   feature |-> 7, alternative |-> 6, question |-> 5]

\* the distinct business terms present in a context
TermsPresent(context) ==
  {business_terms[i] : i \in {h \in 1..Len(business_terms) :
                                Contains(LowerStr(context), business_terms[h])}}

\* the match bonus m of a mention, in 1/100
StatedMatchBonus(m) ==
  IF LowerStr(m.mention_text) = LowerStr(m.brand_name) THEN 30
  ELSE IF LowerStr(m.mention_text) = LowerStr(m.metadata.search_term) THEN 20
  ELSE 0

\* clamp01((0.5 + m + b) * w) of a mention, in 1/1000
StatedConfidence(m) ==
  Min(1000, Max(0,
    (50 + StatedMatchBonus(m) + Min(20, 5 * Cardinality(TermsPresent(m.context))))
      * StatedWeight[m.mention_type]))

\* C25: every returned mention has confidence_score
\* clamp01((0.5 + m + b) * w), with m = 0.3 for the canonical name, 0.2 for
\* the searched alias and 0 otherwise, b = min(0.2, 0.05 per distinct
\* business term in the context) and w the weight of the mention type.
C25_ConfidenceFormula ==
  HasResult =>
    \A j \in 1..Len(result[1].brand_mentions) :
       result[1].brand_mentions[j].confidence_score
         = StatedConfidence(result[1].brand_mentions[j])

\* C25 witness: a call has returned a mention whose text is an alias other
\* than the canonical name, in a context that holds a business term
C25_Witness ==
  /\ HasResult
  /\ \E j \in 1..Len(result[1].brand_mentions) :
        /\ StatedMatchBonus(result[1].brand_mentions[j]) = 20
        /\ TermsPresent(result[1].brand_mentions[j].context) # {}

\* the 50 characters of the cleaned text before mention m
Before(m) ==
  Slice(CleanedText, Max(0, m.metadata.match_start - ProminenceSpan),
        m.metadata.match_start)

\* the 50 characters of the cleaned text after mention m
After(m) ==
  Slice(CleanedText, m.metadata.match_end,
        Min(Len(CleanedText), m.metadata.match_end + ProminenceSpan))

\* the stated adjustments that apply to mention m, in 1/100; the adjustment
\* for the first three sentences is read as including the first sentence
\* (inclusive) or as excluding it
StatedAdjustments(m, inclusive) ==
    (IF m.position = 1 THEN 40 ELSE 0)
  + (IF m.position <= 3 /\ (inclusive \/ m.position > 1) THEN 20 ELSE 0)
  + (IF m.position = Len(split_into_sentences(CleanedText, nlp)) THEN 10 ELSE 0)
  + (IF HasBullet(Before(m)) \/ HasNumbered(Before(m)) THEN 15 ELSE 0)
  + (IF IsUpper(m.mention_text) \/ Contains(Before(m) \o After(m), <<"*", "*">>)
     THEN 30 ELSE 0)
  + (IF Contains(Before(m), <<"\"">>) /\ Contains(After(m), <<"\"">>)
     THEN 35 ELSE 0)
  - (IF Contains(Before(m), <<"(">>) /\ Contains(After(m), <<")">>)
     THEN 20 ELSE 0)

\* C26: every returned mention has prominence_score clamp01(0.5 + the sum
\* of the adjustments that apply): +0.4 first sentence, +0.2 first three
\* sentences, +0.1 last sentence, +0.15 list marker, +0.3 emphasis, +0.35
\* quotation marks, -0.2 parenthetical; the last-sentence adjustment applies
\* whatever the number of sentences.
C26_ProminenceFormula ==
  HasResult =>
    \A j \in 1..Len(result[1].brand_mentions) :
       \E inclusive \in BOOLEAN :
          result[1].brand_mentions[j].prominence_score
            = Min(100, Max(0, 50 + StatedAdjustments(result[1].brand_mentions[j],
                                                      inclusive)))

\* C27: with a positive window the context of a returned mention neither
\* begins nor ends inside a word: context_start is 0 or follows a white
\* space, context_end is the length of the text or is at a white space.
C27_ContextAtWordBoundaries ==
  (HasResult /\ args[1].include_context /\ args[1].context_window > 0) =>
    \A j \in 1..Len(result[1].brand_mentions) :
       /\ \/ result[1].brand_mentions[j].context_start = 0
          \/ IsSpace(CleanedText[result[1].brand_mentions[j].context_start])
       /\ \/ result[1].brand_mentions[j].context_end = Len(CleanedText)
          \/ IsSpace(CleanedText[result[1].brand_mentions[j].context_end + 1])

\* the four sentiment labels
SentimentLabels == {"positive", "negative", "neutral", "mixed"}

RECURSIVE SumOver(_, _)
\* the sum of the counts a histogram holds for the labels in S
SumOver(histogram, S) ==
  IF S = {} THEN 0
  ELSE LET t == CHOOSE x \in S : TRUE
       IN  histogram[t] + SumOver(histogram, S \ {t})

\* C28: in every result mention_positions is the sequence of the positions
\* of brand_mentions in their order, sentiment_distribution has a count for
\* each of the four labels and the counts sum to the number of mentions, and
\* mentions_per_sentence and mention_density have a divisor of at least 1,
\* also for a text without a word or a sentence.
C28_AnalysisConsistent ==
  HasResult =>
    /\ Len(result[1].response_analysis.mention_positions)
         = Len(result[1].brand_mentions)
    /\ \A j \in 1..Len(result[1].brand_mentions) :
          result[1].response_analysis.mention_positions[j]
            = result[1].brand_mentions[j].position
    /\ DOMAIN result[1].response_analysis.sentiment_distribution = SentimentLabels
    /\ SumOver(result[1].response_analysis.sentiment_distribution, SentimentLabels)
         = Len(result[1].brand_mentions)
    /\ result[1].response_analysis.mentions_per_sentence.den >= 1
    /\ result[1].response_analysis.mention_density.den >= 1
    /\ result[1].response_analysis.mentions_per_sentence.num
         = Len(result[1].brand_mentions)
    /\ result[1].response_analysis.mention_density.num
         = Len(result[1].brand_mentions)

\* C28 witness: a call on a text with a sentence has returned mentions
\* whose positions are not in ascending order
C28_Witness ==
  /\ HasResult
  /\ result[1].response_analysis.total_sentences >= 1
  /\ \E i, j \in 1..Len(result[1].brand_mentions) :
        /\ i < j
        /\ result[1].brand_mentions[i].position
             > result[1].brand_mentions[j].position

\* C29: in a call the matcher evaluates a family of patterns for each of the
\* seven mention types, so that each type has candidates of its own.
C29_SevenPatternFamilies ==
  HasResult =>
    \A t \in MentionType :
       \E n \in 1..Len(TypedPatterns) : TypedPatterns[n].mention_type = t

\* every brand of the call in flight has an entry in the cache
AllCached ==
  \A k \in 1..Len(args[1].brand_names) :
     args[1].brand_names[k] \in DOMAIN brand_aliases

\* one step keeps every entry of the cache as it is, leaves every entry
\* equal to the list an uncached resolution produces, and changes nothing
\* when the call resolves cached brands only
CacheStep ==
  /\ \A b \in DOMAIN brand_aliases :
        b \in DOMAIN brand_aliases' /\ brand_aliases'[b] = brand_aliases[b]
  /\ \A b \in DOMAIN brand_aliases' :
        brand_aliases'[b] = get_brand_aliases(b, <<>>)
  /\ (pc = "called" /\ AllCached) => brand_aliases' = brand_aliases

\* C30: over any sequence of calls every entry of the alias cache equals
\* the list a fresh resolution of its brand produces, an entry once written
\* is neither changed nor removed, and resolving a cached brand leaves the
\* cache unchanged.
C30_CacheIdempotent == [][CacheStep]_vars

\* C30 witness: a second call for a brand has returned, on another text than
\* the call the caller kept, with three brands in the cache
C30_Witness ==
  /\ HasResult
  /\ pinned # <<>>
  /\ pinned[1].args.brand_names = args[1].brand_names
  /\ pinned[1].args.response_text # args[1].response_text
  /\ Cardinality(DOMAIN brand_aliases) = 3
====
